---- MODULE Spec2Model ----
(***************************************************************************)
(* A model of the data-access layer of the e-learning application: the     *)
(* embedded SQLite schema (src/services/database.ts) and the zustand       *)
(* stores that issue SQL against it (authStore, the course store,          *)
(* progressStore, the quiz store) plus the quiz screen's submit handler.   *)
(*                                                                         *)
(* Every store operation is an async function.  A step of the model is the *)
(* code that runs between two awaits together with the execution of the    *)
(* statement the second await waits for: the first step of an operation is *)
(* its call (the code up to and including its first statement), the last   *)
(* one the code after its last await.  Operations in flight are the        *)
(* entries of tasks; other operations may take steps in between unless the *)
(* behaviour is serial (one operation at a time, as the screens issue      *)
(* them).                                                                  *)
(***************************************************************************)
EXTENDS Integers, Sequences, FiniteSets, TLC

VARIABLES
    \* ---- the tables of elearning.db
    users, courses, lessons, quizzes, quiz_questions, enrollments,
    lesson_progress, quiz_attempts, quiz_answers, assignments, announcements,
    nextId,          \* AUTOINCREMENT: table name -> the next id it hands out
    \* ---- useAuthStore
    user, isLoggedIn, isLoading,
    currentUser,     \* the AsyncStorage entry 'currentUser'
    \* ---- useProgressStore
    enrollmentsCache, progressIsLoading,
    \* ---- useCourseStore
    lessonsCache, courseIsLoading,
    \* ---- useQuizStore
    quizQuestions, quizIsLoading,
    \* ---- QuizScreen
    quiz,            \* useState: the quiz loaded, or null
    answers,         \* useState: question id -> the answer picked ("" when none)
    quizResult,      \* the params handed to the QuizResult screen, or null
    \* ---- control
    tasks,           \* the async calls in flight
    hist,            \* outcomes of the last calls that completed (most recent last)
    sumPassed,       \* (student, lesson) -> the sum of the increments passed by the
                     \* updateLessonTimeSpent calls that succeeded
    \* ---- the schema of elearning.db
    schema,          \* the tables that exist and the columns of announcements
    failedIn,        \* the statements that failed during the last initializeDatabase
    serial,          \* TRUE: a call starts only when no other is in flight
    keep,            \* the number of outcomes hist keeps
    faults           \* TRUE: a statement of the storage engines may fail

dbVars == <<users, courses, lessons, quizzes, quiz_questions, enrollments,
            lesson_progress, quiz_attempts, quiz_answers, assignments,
            announcements, nextId>>
authVars == <<user, isLoggedIn, isLoading, currentUser>>
progressVars == <<enrollmentsCache, progressIsLoading>>
courseVars == <<lessonsCache, courseIsLoading>>
quizVars == <<quizQuestions, quizIsLoading>>
screenVars == <<quiz, answers, quizResult>>
schemaVars == <<schema, failedIn>>
modeVars == <<serial, keep, faults>>
storeVars == <<authVars, progressVars, courseVars, quizVars, screenVars>>
vars == <<dbVars, storeVars, tasks, hist, sumPassed, schemaVars, modeVars>>

(***************************************************************************)
(* Bounds and input domains                                                *)
(***************************************************************************)
MaxId == 2            \* rows a table's AUTOINCREMENT hands out in a behaviour
MaxTasks == 2         \* calls in flight at once
MaxTime == 3          \* cap on an accumulated timeSpent
MaxRows == 5          \* rows created in all the tables of course-owned rows together
MaxInserts == 3       \* rows inserted in a behaviour in which statements may fail

Emails == {"a@x", "b@x"}
Passwords == {"pw1", "pw2"}
Names == {"Ann"}
Roles == {"teacher", "student"}
Students == {1, 2}
LessonIds == {1, 2}
CourseIds == {1, 2}
Percentages == {0, 50, 100}
\* completionPercentage is a number: what a caller may pass, in or out of range
ProgressInputs == Percentages \cup {-50, 150}
Increments == {1, 2}
SequenceNumbers == {1, 2}
Teachers == {1}
QuizIds == {1, 2}
QuestionIds == 1 .. MaxId
Answers == {"A", "B"}
ProfileNames == {"Ann", "Bob"}
Bios == {"hi"}

None == <<>>
Some(x) == <<x>>
IsSome(o) == o # <<>>
Val(o) == o[1]

TaskIds == 1 .. MaxTasks
Idle == [op |-> "idle", pc |-> 0, args |-> <<>>, loc |-> <<>>, pre |-> <<>>]
AllIdle == \A t \in TaskIds : tasks[t] = Idle
FreeSlots == {t \in TaskIds : tasks[t] = Idle}
CanCall == IF serial THEN AllIdle ELSE FreeSlots # {}
\* the slot a new call takes
Slot == CHOOSE t \in FreeSlots : \A u \in FreeSlots : t <= u
InFlight(op) == Cardinality({t \in TaskIds : tasks[t].op = op})

\* the outcomes a statement of the storage engine may have: TRUE is success
Outcomes == IF faults THEN {TRUE, FALSE} ELSE {TRUE}

\* error messages (tuples, so that a message may carry a value)
DbError == <<"storage failure">>
UniqueError == <<"UNIQUE constraint failed">>
EmailTaken == <<"Email already registered">>
InvalidLogin == <<"Invalid email or password">>
RoleMismatch(role) == <<"This account is registered as a", role>>
NoUser == <<"No user logged in">>
AlreadyEnrolled == <<"Already enrolled in this course">>
NoMsg == <<>>

\* the call of task t has completed: free its slot and record its outcome
Outcome(t, status, msg) ==
    [op |-> tasks[t].op, args |-> tasks[t].args, pre |-> tasks[t].pre,
     status |-> status, msg |-> msg]
Record(o) ==
    IF keep = 0 THEN hist
    ELSE IF Len(hist) < keep THEN Append(hist, o) ELSE Append(Tail(hist), o)
Complete(t, status, msg) ==
    /\ tasks' = [tasks EXCEPT ![t] = Idle]
    /\ hist' = Record(Outcome(t, status, msg))
\* a call that completes in the step that starts it
CompleteNow(op, args, pre, status, msg) ==
    /\ tasks' = tasks
    /\ hist' = Record([op |-> op, args |-> args, pre |-> pre,
                       status |-> status, msg |-> msg])
Start(op, pc, args, loc, pre) ==
    /\ tasks' = [tasks EXCEPT ![Slot] =
                    [op |-> op, pc |-> pc, args |-> args, loc |-> loc, pre |-> pre]]
    /\ hist' = hist
Goto(t, pc, loc) ==
    /\ tasks' = [tasks EXCEPT ![t].pc = pc, ![t].loc = loc]
    /\ hist' = hist

\* db.getFirstAsync: the first row of a result set, or null
FirstOf(rows) == IF rows = {} THEN {None} ELSE {Some(r) : r \in rows}

\* the permutations of a set of rows
RECURSIVE Perms(_)
Perms(S) ==
    IF S = {} THEN {<<>>}
    ELSE UNION {{<<x>> \o q : q \in Perms(S \ {x})} : x \in S}

\* what a call remembers of the table for the properties of serial behaviours
Snapshot(x) == IF serial THEN x ELSE {}

(***************************************************************************)
(* The users table and useAuthStore                                        *)
(***************************************************************************)
\* users.email is UNIQUE NOT NULL
UsersNoConstraint(email) == TRUE
UsersUniqueOk(email) == \A u \in users : u.email # email

\* INSERT INTO users (email, password, name, role)
InsertUserSwapped(email, password, name, role) ==
    /\ users' = users \cup {[id |-> nextId.users, email |-> email,
                             password |-> name, name |-> password,
                             role |-> role, bio |-> None]}
    /\ nextId' = [nextId EXCEPT !.users = @ + 1]
InsertUser(email, password, name, role) ==
    /\ users' = users \cup {[id |-> nextId.users, email |-> email,
                             password |-> password, name |-> name,
                             role |-> role, bio |-> None]}
    /\ nextId' = [nextId EXCEPT !.users = @ + 1]

\* JSON.stringify / JSON.parse of a user object
JSONstringify(u) == [json |-> u]
JSONparse(s) == s.json

\* WHERE email = ? AND password = ? AND role = ?
LoginMatchAnyRole(u, email, password, role) ==
    u.email = email /\ u.password = password
LoginMatch(u, email, password, role) ==
    u.email = email /\ u.password = password /\ u.role = role

\* WHERE email = ? AND password = ?
CredMatch(u, email, password) ==
    u.email = email /\ u.password = password

\* signup: up to the first await (the SELECT by email)
Signup(email, password, name, role) ==
    /\ CanCall
    /\ nextId.users + InFlight("signup") <= MaxId
    /\ isLoading' = TRUE
    /\ \E ok \in Outcomes :
        \E existing \in FirstOf({u \in users : u.email = email}) :
            Start("signup", 1,
                  [email |-> email, password |-> password, name |-> name, role |-> role],
                  [ok |-> ok, res |-> IF ok THEN existing ELSE None],
                  <<\E u \in users : u.email = email>>)
    /\ UNCHANGED <<dbVars, user, isLoggedIn, currentUser, progressVars, courseVars, quizVars, screenVars, sumPassed, schemaVars, modeVars>>

\* signup: after the SELECT, up to the INSERT
SignupInsert(t) ==
    /\ tasks[t].op = "signup" /\ tasks[t].pc = 1
    /\ LET a == tasks[t].args
           l == tasks[t].loc
       IN  IF ~l.ok \/ IsSome(l.res)
           THEN \* throw; finally
                /\ isLoading' = FALSE
                /\ Complete(t, "error", IF ~l.ok THEN DbError ELSE EmailTaken)
                /\ UNCHANGED dbVars
           ELSE \E ok \in Outcomes :
                /\ isLoading' = isLoading
                /\ IF ~ok
                   THEN Goto(t, 2, [ok |-> FALSE, res |-> Some(DbError)]) /\ UNCHANGED dbVars
                   ELSE IF ~UsersUniqueOk(a.email)
                   THEN Goto(t, 2, [ok |-> FALSE, res |-> Some(UniqueError)]) /\ UNCHANGED dbVars
                   ELSE /\ InsertUser(a.email, a.password, a.name, a.role)
                        /\ Goto(t, 2, [ok |-> TRUE, res |-> None])
                        /\ UNCHANGED <<courses, lessons, quizzes, quiz_questions,
                                       enrollments, lesson_progress, quiz_attempts,
                                       quiz_answers, assignments, announcements>>
    /\ UNCHANGED <<user, isLoggedIn, currentUser, progressVars, courseVars, quizVars, screenVars, sumPassed, schemaVars, modeVars>>

\* signup: after the INSERT (the finally block)
SignupDone(t) ==
    /\ tasks[t].op = "signup" /\ tasks[t].pc = 2
    /\ isLoading' = FALSE
    /\ IF tasks[t].loc.ok
       THEN Complete(t, "ok", NoMsg)
       ELSE Complete(t, "error", Val(tasks[t].loc.res))
    /\ UNCHANGED <<dbVars, user, isLoggedIn, currentUser, progressVars, courseVars, quizVars, screenVars, sumPassed, schemaVars, modeVars>>

\* login: up to the first await (the SELECT by email, password and role)
Login(email, password, role) ==
    /\ CanCall
    /\ isLoading' = TRUE
    /\ \E ok \in Outcomes :
        \E result \in FirstOf({u \in users : LoginMatch(u, email, password, role)}) :
            Start("login", 1, [email |-> email, password |-> password, role |-> role],
                  [ok |-> ok, res |-> IF ok THEN result ELSE None],
                  [user |-> user, isLoggedIn |-> isLoggedIn,
                   currentUser |-> currentUser])
    /\ UNCHANGED <<dbVars, user, isLoggedIn, currentUser, progressVars, courseVars, quizVars, screenVars, sumPassed, schemaVars, modeVars>>

\* login: after the first SELECT: the session is set and saved, or the second
\* SELECT (by email and password) is issued
LoginFound(t) ==
    /\ tasks[t].op = "login" /\ tasks[t].pc = 1
    /\ LET a == tasks[t].args
           l == tasks[t].loc
       IN  IF ~l.ok
           THEN /\ isLoading' = FALSE
                /\ Complete(t, "error", DbError)
                /\ UNCHANGED <<user, isLoggedIn, currentUser>>
           ELSE IF IsSome(l.res)
           THEN /\ user' = l.res
                /\ isLoggedIn' = TRUE
                /\ isLoading' = isLoading
                /\ \E ok \in Outcomes :
                    /\ currentUser' = IF ok THEN Some(JSONstringify(Val(l.res)))
                                      ELSE currentUser
                    /\ Goto(t, 2, [ok |-> ok, res |-> None])
           ELSE /\ \E ok \in Outcomes :
                    \E other \in FirstOf({u \in users : CredMatch(u, a.email, a.password)}) :
                        Goto(t, 3, [ok |-> ok, res |-> IF ok THEN other ELSE None])
                /\ UNCHANGED <<user, isLoggedIn, isLoading, currentUser>>
    /\ UNCHANGED <<dbVars, progressVars, courseVars, quizVars, screenVars, sumPassed, schemaVars, modeVars>>

\* login: after AsyncStorage.setItem (the finally block)
LoginSaved(t) ==
    /\ tasks[t].op = "login" /\ tasks[t].pc = 2
    /\ isLoading' = FALSE
    /\ IF tasks[t].loc.ok THEN Complete(t, "ok", NoMsg)
       ELSE Complete(t, "error", DbError)
    /\ UNCHANGED <<dbVars, user, isLoggedIn, currentUser, progressVars, courseVars, quizVars, screenVars, sumPassed, schemaVars, modeVars>>

\* login: after the second SELECT: the error thrown, then the finally block
LoginRejected(t) ==
    /\ tasks[t].op = "login" /\ tasks[t].pc = 3
    /\ isLoading' = FALSE
    /\ LET l == tasks[t].loc
       IN  Complete(t, "error",
                    IF ~l.ok THEN DbError
                    ELSE IF IsSome(l.res) THEN RoleMismatch(Val(l.res).role)
                    ELSE InvalidLogin)
    /\ UNCHANGED <<dbVars, user, isLoggedIn, currentUser, progressVars, courseVars, quizVars, screenVars, sumPassed, schemaVars, modeVars>>

\* AsyncStorage.removeItem('currentUser')
RemoveItemKeeps(entry) == entry
RemoveItem(entry) == None

\* logout: the session is cleared, then the entry removed
Logout ==
    /\ CanCall
    /\ user' = None
    /\ isLoggedIn' = FALSE
    /\ \E ok \in Outcomes :
        /\ currentUser' = IF ok THEN RemoveItem(currentUser) ELSE currentUser
        /\ CompleteNow("logout", <<>>, <<isLoggedIn>>, IF ok THEN "ok" ELSE "error",
                       IF ok THEN NoMsg ELSE DbError)
    /\ UNCHANGED <<dbVars, isLoading, progressVars, courseVars, quizVars, screenVars, sumPassed, schemaVars, modeVars>>

\* getCurrentUser: up to the first await (AsyncStorage.getItem)
GetCurrentUser ==
    /\ CanCall
    /\ \E ok \in Outcomes :
        Start("getCurrentUser", 1, <<>>,
              [ok |-> ok, res |-> IF ok THEN currentUser ELSE None], <<>>)
    /\ UNCHANGED <<dbVars, storeVars, sumPassed, schemaVars, modeVars>>

\* getCurrentUser: after getItem: the session is reinstated from the entry and
\* the user returned, or null is returned (also on an error, which is logged)
GetCurrentUserDone(t) ==
    /\ tasks[t].op = "getCurrentUser" /\ tasks[t].pc = 1
    /\ LET l == tasks[t].loc
       IN  IF l.ok /\ IsSome(l.res)
           THEN /\ user' = Some(JSONparse(Val(l.res)))
                /\ isLoggedIn' = TRUE
                /\ Complete(t, "ok", Some(JSONparse(Val(l.res))))
           ELSE /\ UNCHANGED <<user, isLoggedIn>>
                /\ Complete(t, IF l.ok THEN "ok" ELSE "swallowed", None)
    /\ UNCHANGED <<dbVars, isLoading, currentUser, progressVars, courseVars, quizVars, screenVars,
                   sumPassed, schemaVars, modeVars>>

\* UPDATE users SET name = ?, bio = ? WHERE id = ?
UpdateUserRow(id, name, bio) ==
    {IF u.id = id THEN [u EXCEPT !.name = name, !.bio = Some(bio)] ELSE u : u \in users}

\* const updatedUser = { ...state.user, name, bio }
UpdatedUserNameOnly(stateUser, name, bio) == [stateUser EXCEPT !.name = name]
UpdatedUser(stateUser, name, bio) == [stateUser EXCEPT !.name = name, !.bio = Some(bio)]

\* updateProfile: up to the first await (the UPDATE), or the throw when there
\* is no session, followed by the finally block
UpdateProfile(name, bio) ==
    /\ CanCall
    /\ LET args == [name |-> name, bio |-> bio]
           pre == [users |-> Snapshot(users), currentUser |-> currentUser, user |-> user]
       IN  IF ~IsSome(user)
           THEN /\ isLoading' = FALSE
                /\ CompleteNow("updateProfile", args, pre, "error", NoUser)
                /\ UNCHANGED users
           ELSE /\ isLoading' = TRUE
                /\ \E ok \in Outcomes :
                    /\ users' = IF ok THEN UpdateUserRow(Val(user).id, name, bio)
                                ELSE users
                    /\ Start("updateProfile", 1, args,
                             [ok |-> ok, stateUser |-> Val(user)], pre)
    /\ UNCHANGED <<courses, lessons, quizzes, quiz_questions, enrollments,
                   lesson_progress, quiz_attempts, quiz_answers, assignments,
                   announcements, nextId, user, isLoggedIn, currentUser, progressVars, courseVars,
                   quizVars, screenVars, sumPassed, schemaVars, modeVars>>

\* updateProfile: after the UPDATE: the session user is replaced and the entry
\* written
UpdateProfileSave(t) ==
    /\ tasks[t].op = "updateProfile" /\ tasks[t].pc = 1
    /\ LET a == tasks[t].args
           l == tasks[t].loc
           updatedUser == UpdatedUser(l.stateUser, a.name, a.bio)
       IN  IF ~l.ok
           THEN /\ isLoading' = FALSE
                /\ Complete(t, "error", DbError)
                /\ UNCHANGED <<user, currentUser>>
           ELSE /\ user' = Some(updatedUser)
                /\ isLoading' = isLoading
                /\ \E ok \in Outcomes :
                    /\ currentUser' = IF ok THEN Some(JSONstringify(updatedUser))
                                      ELSE currentUser
                    /\ Goto(t, 2, [l EXCEPT !.ok = ok])
    /\ UNCHANGED <<dbVars, isLoggedIn, progressVars, courseVars, quizVars, screenVars, sumPassed,
                   schemaVars, modeVars>>

\* updateProfile: after AsyncStorage.setItem (the finally block)
UpdateProfileDone(t) ==
    /\ tasks[t].op = "updateProfile" /\ tasks[t].pc = 2
    /\ isLoading' = FALSE
    /\ IF tasks[t].loc.ok THEN Complete(t, "ok", NoMsg)
       ELSE Complete(t, "error", DbError)
    /\ UNCHANGED <<dbVars, user, isLoggedIn, currentUser, progressVars, courseVars, quizVars,
                   screenVars, sumPassed, schemaVars, modeVars>>

(***************************************************************************)
(* The enrollments table and the enrollment operations of useProgressStore *)
(***************************************************************************)
notEnrollments == <<users, courses, lessons, quizzes, quiz_questions,
                    lesson_progress, quiz_attempts, quiz_answers, assignments,
                    announcements>>

\* WHERE studentId = ? AND courseId = ?
EnrollmentsOf(s, c) == {e \in enrollments : e.studentId = s /\ e.courseId = c}

\* UNIQUE(studentId, courseId)
EnrollNoConstraint(s, c) == TRUE
EnrollUniqueOk(s, c) == EnrollmentsOf(s, c) = {}

\* (existing as any).status === 'active'
IsActiveNever(existing) == FALSE
IsActive(existing) == existing.status = "active"

\* INSERT INTO enrollments (studentId, courseId, completionPercentage, status)
\* VALUES (?, ?, 0, 'active')
InsertEnrollment(s, c) ==
    /\ enrollments' = enrollments \cup
            {[id |-> nextId.enrollments, studentId |-> s, courseId |-> c,
              completionPercentage |-> 0, status |-> "active"]}
    /\ nextId' = [nextId EXCEPT !.enrollments = @ + 1]

\* UPDATE enrollments SET status = 'active', completionPercentage = 0
\* WHERE studentId = ? AND courseId = ?
ReactivateEnrollment(s, c) ==
    /\ enrollments' = {IF e.studentId = s /\ e.courseId = c
                       THEN [e EXCEPT !.status = "active", !.completionPercentage = 0]
                       ELSE e : e \in enrollments}
    /\ nextId' = nextId

\* enrollInCourse: up to the first await (the SELECT of id and status)
EnrollInCourse(s, c) ==
    /\ CanCall
    /\ nextId.enrollments + InFlight("enrollInCourse") <= MaxId
    /\ \E ok \in Outcomes :
        \E existing \in FirstOf(EnrollmentsOf(s, c)) :
            Start("enrollInCourse", 1, [studentId |-> s, courseId |-> c],
                  [ok |-> ok, res |-> IF ok THEN existing ELSE None],
                  Snapshot(enrollments))
    /\ UNCHANGED <<dbVars, storeVars, sumPassed, schemaVars, modeVars>>

\* enrollInCourse: after the SELECT: the error, the reactivation or the insert
EnrollInCourseWrite(t) ==
    /\ tasks[t].op = "enrollInCourse" /\ tasks[t].pc = 1
    /\ LET a == tasks[t].args
           l == tasks[t].loc
       IN  IF ~l.ok
           THEN Complete(t, "error", DbError) /\ UNCHANGED <<enrollments, nextId>>
           ELSE IF IsSome(l.res) /\ IsActive(Val(l.res))
           THEN Complete(t, "error", AlreadyEnrolled) /\ UNCHANGED <<enrollments, nextId>>
           ELSE \E ok \in Outcomes :
                IF ~ok
                THEN Complete(t, "error", DbError) /\ UNCHANGED <<enrollments, nextId>>
                ELSE IF IsSome(l.res)
                THEN ReactivateEnrollment(a.studentId, a.courseId)
                     /\ Complete(t, "ok", NoMsg)
                ELSE IF ~EnrollUniqueOk(a.studentId, a.courseId)
                THEN Complete(t, "error", UniqueError) /\ UNCHANGED <<enrollments, nextId>>
                ELSE InsertEnrollment(a.studentId, a.courseId)
                     /\ Complete(t, "ok", NoMsg)
    /\ UNCHANGED <<notEnrollments, storeVars, sumPassed, schemaVars, modeVars>>

\* unenrollFromCourse: DELETE FROM enrollments WHERE studentId = ? AND courseId = ?
UnenrollFromCourse(s, c) ==
    /\ CanCall
    /\ \E ok \in Outcomes :
        /\ enrollments' = IF ok THEN enrollments \ EnrollmentsOf(s, c) ELSE enrollments
        /\ CompleteNow("unenrollFromCourse", [studentId |-> s, courseId |-> c],
                       Snapshot(enrollments),
                       IF ok THEN "ok" ELSE "error", IF ok THEN NoMsg ELSE DbError)
    /\ UNCHANGED <<notEnrollments, nextId, storeVars, sumPassed, schemaVars, modeVars>>

\* SET completionPercentage = ?
SetProgressCompletes(e, pct) ==
    [e EXCEPT !.completionPercentage = pct,
              !.status = IF pct = 100 THEN "completed" ELSE @]
SetProgress(e, pct) == [e EXCEPT !.completionPercentage = pct]

\* updateEnrollmentProgress: UPDATE enrollments SET completionPercentage = ?
\* WHERE id = ?
UpdateEnrollmentProgress(enrollmentId, pct) ==
    /\ CanCall
    /\ \E ok \in Outcomes :
        /\ enrollments' = IF ok
                          THEN {IF e.id = enrollmentId THEN SetProgress(e, pct) ELSE e :
                                    e \in enrollments}
                          ELSE enrollments
        /\ CompleteNow("updateEnrollmentProgress",
                       [enrollmentId |-> enrollmentId, completionPercentage |-> pct],
                       Snapshot(enrollments),
                       IF ok THEN "ok" ELSE "error", IF ok THEN NoMsg ELSE DbError)
    /\ UNCHANGED <<notEnrollments, nextId, storeVars, sumPassed, schemaVars, modeVars>>

\* getEnrollment: up to the first await (SELECT * ... WHERE studentId = ? AND
\* courseId = ?)
GetEnrollment(s, c) ==
    /\ CanCall
    /\ \E ok \in Outcomes :
        \E result \in FirstOf(EnrollmentsOf(s, c)) :
            Start("getEnrollment", 1, [studentId |-> s, courseId |-> c],
                  [ok |-> ok, res |-> IF ok THEN result ELSE None], <<>>)
    /\ UNCHANGED <<dbVars, storeVars, sumPassed, schemaVars, modeVars>>

\* getEnrollment: after the SELECT: the row or null is returned; an error is
\* logged and null returned
GetEnrollmentDone(t) ==
    /\ tasks[t].op = "getEnrollment" /\ tasks[t].pc = 1
    /\ LET l == tasks[t].loc
       IN  IF l.ok THEN Complete(t, "ok", l.res) ELSE Complete(t, "swallowed", None)
    /\ UNCHANGED <<dbVars, storeVars, sumPassed, schemaVars, modeVars>>

\* ORDER BY enrolledAt DESC: enrolledAt is CURRENT_TIMESTAMP at the INSERT, to
\* the second, so a row inserted later never comes after an earlier one with
\* a different stamp; rows inserted within one second come in any order
OrderByEnrolledAtDesc(rows) == Perms(rows)

\* fetchStudentEnrollments: up to the first await (the SELECT)
FetchStudentEnrollments(s) ==
    /\ CanCall
    /\ progressIsLoading' = TRUE
    /\ \E ok \in Outcomes :
        \E result \in OrderByEnrolledAtDesc({e \in enrollments : e.studentId = s}) :
            Start("fetchStudentEnrollments", 1, [studentId |-> s],
                  [ok |-> ok, res |-> IF ok THEN result ELSE <<>>], <<>>)
    /\ UNCHANGED <<dbVars, authVars, enrollmentsCache, courseVars, quizVars, screenVars,
                   sumPassed, schemaVars, modeVars>>

\* fetchStudentEnrollments: after the SELECT: the cache is set; an error is
\* logged and swallowed; finally
FetchStudentEnrollmentsDone(t) ==
    /\ tasks[t].op = "fetchStudentEnrollments" /\ tasks[t].pc = 1
    /\ enrollmentsCache' = IF tasks[t].loc.ok THEN tasks[t].loc.res ELSE enrollmentsCache
    /\ progressIsLoading' = FALSE
    /\ IF tasks[t].loc.ok THEN Complete(t, "ok", NoMsg)
       ELSE Complete(t, "swallowed", DbError)
    /\ UNCHANGED <<dbVars, authVars, courseVars, quizVars, screenVars, sumPassed,
                   schemaVars, modeVars>>

\* return result ? result.completionPercentage : 0
ProgressOrZeroAlwaysZero(result) == 0
ProgressOrZero(result) == IF IsSome(result) THEN Val(result).completionPercentage ELSE 0

\* getCourseProgress: up to the first await (SELECT completionPercentage ...
\* WHERE studentId = ? AND courseId = ?)
GetCourseProgress(s, c) ==
    /\ CanCall
    /\ \E ok \in Outcomes :
        \E result \in FirstOf(EnrollmentsOf(s, c)) :
            Start("getCourseProgress", 1, [studentId |-> s, courseId |-> c],
                  [ok |-> ok, res |-> IF ok THEN result ELSE None], <<>>)
    /\ UNCHANGED <<dbVars, storeVars, sumPassed, schemaVars, modeVars>>

\* getCourseProgress: after the SELECT: the stored percentage or 0 is
\* returned; an error is logged and 0 returned
GetCourseProgressDone(t) ==
    /\ tasks[t].op = "getCourseProgress" /\ tasks[t].pc = 1
    /\ LET l == tasks[t].loc
       IN  IF l.ok THEN Complete(t, "ok", <<ProgressOrZero(l.res)>>)
           ELSE Complete(t, "swallowed", <<0>>)
    /\ UNCHANGED <<dbVars, storeVars, sumPassed, schemaVars, modeVars>>

\* fetchCourseStudentProgress: FROM enrollments e INNER JOIN users u ON
\* e.studentId = u.id ... WHERE e.courseId = ? AND e.status = 'active'
ActiveEnrollmentsWithUser(c) ==
    {<<e, u>> \in enrollments \X users :
        e.courseId = c /\ e.status = "active" /\ e.studentId = u.id}
\* LEFT JOIN lessons l ON e.courseId = l.courseId: the lessons of the course,
\* or one row of nulls when it has none
LessonsJoinedInner(e) == {Some(l) : l \in {x \in lessons : x.courseId = e.courseId}}
LessonsJoined(e) ==
    IF \E l \in lessons : l.courseId = e.courseId
    THEN {Some(l) : l \in {x \in lessons : x.courseId = e.courseId}}
    ELSE {None}
\* LEFT JOIN lesson_progress lp ON l.id = lp.lessonId AND lp.studentId = u.id
ProgressJoined(l, u) ==
    LET rows == IF IsSome(l)
                THEN {p \in lesson_progress :
                        p.lessonId = Val(l).id /\ p.studentId = u.id}
                ELSE {}
    IN  IF rows = {} THEN {None} ELSE {Some(p) : p \in rows}
\* the joined rows of the group of user u (GROUP BY u.id)
GroupOf(c, u) ==
    UNION {UNION {{<<eu[1], l, p>> : p \in ProgressJoined(l, u)} :
                    l \in LessonsJoined(eu[1])} :
           eu \in {x \in ActiveEnrollmentsWithUser(c) : x[2] = u}}
\* the result row of a group: COUNT(l.id), COUNT(CASE WHEN lp.isCompleted = 1
\* THEN 1 END); the enrollment columns come from a row of the group
GroupRows(c, u) ==
    {[studentId |-> u.id, studentName |-> u.name,
      completionPercentage |-> j[1].completionPercentage, status |-> j[1].status,
      totalLessons |-> Cardinality({k \in GroupOf(c, u) : IsSome(k[2])}),
      completedLessons |->
          Cardinality({k \in GroupOf(c, u) : IsSome(k[3]) /\ Val(k[3]).isCompleted = 1})] :
     j \in GroupOf(c, u)}
\* ORDER BY u.name: the position of a name in the collation
NameRank(n) == CASE n = "Ann" -> 1 [] n = "Bob" -> 2 [] OTHER -> 3
\* the result sets the SELECT may return: one row per group, ordered by name
\* (rows with equal names in any order)
CourseStudentProgress(c) ==
    UNION {{p \in Perms(rows) :
                \A i, k \in 1 .. Len(p) :
                    i < k => NameRank(p[i].studentName) <= NameRank(p[k].studentName)} :
           rows \in {R \in SUBSET UNION {GroupRows(c, u) : u \in users} :
                        \A u \in users :
                            IF GroupOf(c, u) = {}
                            THEN \A r \in R : r.studentId # u.id
                            ELSE Cardinality({r \in R : r.studentId = u.id}) = 1}}

\* fetchCourseStudentProgress: up to the first await (the SELECT)
FetchCourseStudentProgress(c) ==
    /\ CanCall
    /\ \E ok \in Outcomes :
        \E result \in CourseStudentProgress(c) :
            Start("fetchCourseStudentProgress", 1, [courseId |-> c],
                  [ok |-> ok, res |-> IF ok THEN result ELSE <<>>], <<>>)
    /\ UNCHANGED <<dbVars, storeVars, sumPassed, schemaVars, modeVars>>

\* fetchCourseStudentProgress: after the SELECT: the rows are returned; an
\* error is logged and [] returned
FetchCourseStudentProgressDone(t) ==
    /\ tasks[t].op = "fetchCourseStudentProgress" /\ tasks[t].pc = 1
    /\ LET l == tasks[t].loc
       IN  IF l.ok THEN Complete(t, "ok", l.res)
           ELSE Complete(t, "swallowed", <<>>)
    /\ UNCHANGED <<dbVars, storeVars, sumPassed, schemaVars, modeVars>>

(***************************************************************************)
(* The lesson_progress table and the lesson operations of useProgressStore *)
(***************************************************************************)
notLessonProgress == <<users, courses, lessons, quizzes, quiz_questions,
                       enrollments, quiz_attempts, quiz_answers, assignments,
                       announcements>>

\* WHERE studentId = ? AND lessonId = ?
ProgressOf(s, l) == {r \in lesson_progress : r.studentId = s /\ r.lessonId = l}

\* UNIQUE(studentId, lessonId)
ProgressUniqueOk(s, l) == ProgressOf(s, l) = {}

\* INSERT INTO lesson_progress: isCompleted defaults to 0, completedAt to
\* NULL, timeSpent to 0
InsertProgress(s, l, isCompleted, completedAt, timeSpent) ==
    /\ lesson_progress' = lesson_progress \cup
            {[id |-> nextId.lesson_progress, studentId |-> s, lessonId |-> l,
              isCompleted |-> isCompleted, completedAt |-> completedAt,
              timeSpent |-> timeSpent]}
    /\ nextId' = [nextId EXCEPT !.lesson_progress = @ + 1]

\* UPDATE lesson_progress SET ... WHERE studentId = ? AND lessonId = ?
\* (set maps each row to the row with the SET clause applied)
UpdateProgress(s, l, set) ==
    /\ lesson_progress' = {IF r.studentId = s /\ r.lessonId = l THEN set[r] ELSE r :
                           r \in lesson_progress}
    /\ nextId' = nextId

\* SET isCompleted = 1, completedAt = CURRENT_TIMESTAMP
SetComplete(r) == [r EXCEPT !.isCompleted = 1, !.completedAt = Some("now")]
\* SET isCompleted = 0, completedAt = NULL
SetIncompleteKeepStamp(r) == [r EXCEPT !.isCompleted = 0]
SetIncomplete(r) == [r EXCEPT !.isCompleted = 0, !.completedAt = None]
\* const totalTime = existing.timeSpent + timeSpent
TotalTimeOverwrite(existingTime, timeSpent) == timeSpent
TotalTime(existingTime, timeSpent) == existingTime + timeSpent

\* the calls in flight whose SELECT found no row: each will INSERT one
PendingProgressInserts ==
    Cardinality({t \in TaskIds :
        /\ tasks[t].op \in {"markLessonComplete", "updateLessonTimeSpent"}
        /\ ~IsSome(tasks[t].loc.res)})
\* a call begins while the ids of lesson_progress stay within MaxId
MayAddProgress ==
    nextId.lesson_progress + PendingProgressInserts <= MaxId

\* markLessonComplete: up to the first await (the SELECT of id)
MarkLessonComplete(s, l) ==
    /\ CanCall
    /\ MayAddProgress
    /\ \E ok \in Outcomes :
        \E existing \in FirstOf(ProgressOf(s, l)) :
            Start("markLessonComplete", 1, [studentId |-> s, lessonId |-> l],
                  [ok |-> ok, res |-> IF ok THEN existing ELSE None],
                  Snapshot(ProgressOf(s, l)))
    /\ UNCHANGED <<dbVars, storeVars, sumPassed, schemaVars, modeVars>>

\* markLessonComplete: after the SELECT: the UPDATE or the INSERT
MarkLessonCompleteWrite(t) ==
    /\ tasks[t].op = "markLessonComplete" /\ tasks[t].pc = 1
    /\ LET a == tasks[t].args
           l == tasks[t].loc
       IN  IF ~l.ok
           THEN Complete(t, "error", DbError) /\ UNCHANGED <<lesson_progress, nextId>>
           ELSE \E ok \in Outcomes :
                IF ~ok
                THEN Complete(t, "error", DbError) /\ UNCHANGED <<lesson_progress, nextId>>
                ELSE IF IsSome(l.res)
                THEN UpdateProgress(a.studentId, a.lessonId,
                                    [r \in lesson_progress |-> SetComplete(r)])
                     /\ Complete(t, "ok", NoMsg)
                ELSE IF ~ProgressUniqueOk(a.studentId, a.lessonId)
                THEN Complete(t, "error", UniqueError)
                     /\ UNCHANGED <<lesson_progress, nextId>>
                ELSE InsertProgress(a.studentId, a.lessonId, 1, Some("now"), 0)
                     /\ Complete(t, "ok", NoMsg)
    /\ UNCHANGED <<notLessonProgress, storeVars, sumPassed, schemaVars, modeVars>>

\* markLessonIncomplete: a single UPDATE
MarkLessonIncomplete(s, l) ==
    /\ CanCall
    /\ \E ok \in Outcomes :
        /\ IF ok THEN UpdateProgress(s, l, [r \in lesson_progress |-> SetIncomplete(r)])
           ELSE UNCHANGED <<lesson_progress, nextId>>
        /\ CompleteNow("markLessonIncomplete", [studentId |-> s, lessonId |-> l],
                       Snapshot(ProgressOf(s, l)),
                       IF ok THEN "ok" ELSE "error", IF ok THEN NoMsg ELSE DbError)
    /\ UNCHANGED <<notLessonProgress, storeVars, sumPassed, schemaVars, modeVars>>

\* the increments of the updateLessonTimeSpent calls in flight for (s, l)
RECURSIVE PendingTime(_, _, _)
PendingTime(T, s, l) ==
    IF T = {} THEN 0
    ELSE LET t == CHOOSE x \in T : TRUE
             k == tasks[t]
         IN  (IF k.op = "updateLessonTimeSpent" /\ k.args.studentId = s
                    /\ k.args.lessonId = l
              THEN k.args.timeSpent ELSE 0) + PendingTime(T \ {t}, s, l)

\* updateLessonTimeSpent: up to the first await (the SELECT of id and timeSpent)
UpdateLessonTimeSpent(s, l, timeSpent) ==
    /\ CanCall
    /\ MayAddProgress
    /\ sumPassed[s, l] + PendingTime(TaskIds, s, l) + timeSpent <= MaxTime
    /\ \E ok \in Outcomes :
        \E existing \in FirstOf(ProgressOf(s, l)) :
            Start("updateLessonTimeSpent", 1,
                  [studentId |-> s, lessonId |-> l, timeSpent |-> timeSpent],
                  [ok |-> ok, res |-> IF ok THEN existing ELSE None],
                  Snapshot(ProgressOf(s, l)))
    /\ UNCHANGED <<dbVars, storeVars, sumPassed, schemaVars, modeVars>>

\* updateLessonTimeSpent: after the SELECT: the UPDATE with the total, or the
\* INSERT
UpdateLessonTimeSpentWrite(t) ==
    /\ tasks[t].op = "updateLessonTimeSpent" /\ tasks[t].pc = 1
    /\ LET a == tasks[t].args
           l == tasks[t].loc
           Passed == sumPassed' = [sumPassed EXCEPT ![a.studentId, a.lessonId] =
                                        @ + a.timeSpent]
           SetTotal(r) == [r EXCEPT !.timeSpent =
                                TotalTime(Val(l.res).timeSpent, a.timeSpent)]
       IN  IF ~l.ok
           THEN Complete(t, "error", DbError)
                /\ UNCHANGED <<lesson_progress, nextId, sumPassed>>
           ELSE \E ok \in Outcomes :
                IF ~ok
                THEN Complete(t, "error", DbError)
                     /\ UNCHANGED <<lesson_progress, nextId, sumPassed>>
                ELSE IF IsSome(l.res)
                THEN UpdateProgress(a.studentId, a.lessonId,
                                    [r \in lesson_progress |-> SetTotal(r)])
                     /\ Passed /\ Complete(t, "ok", NoMsg)
                ELSE IF ~ProgressUniqueOk(a.studentId, a.lessonId)
                THEN Complete(t, "error", UniqueError)
                     /\ UNCHANGED <<lesson_progress, nextId, sumPassed>>
                ELSE InsertProgress(a.studentId, a.lessonId, 0, None, a.timeSpent)
                     /\ Passed /\ Complete(t, "ok", NoMsg)
    /\ UNCHANGED <<notLessonProgress, storeVars, schemaVars, modeVars>>

(***************************************************************************)
(* useCourseStore, and the operations of the other stores that create the  *)
(* rows a course owns                                                      *)
(***************************************************************************)
\* createCourse: INSERT INTO courses
CreateCourse(teacherId) ==
    /\ CanCall
    /\ nextId.courses \in CourseIds
    /\ \E ok \in Outcomes :
        /\ IF ok
           THEN /\ courses' = courses \cup {[id |-> nextId.courses, teacherId |-> teacherId]}
                /\ nextId' = [nextId EXCEPT !.courses = @ + 1]
           ELSE UNCHANGED <<courses, nextId>>
        /\ CompleteNow("createCourse", [teacherId |-> teacherId], {},
                       IF ok THEN "ok" ELSE "error", IF ok THEN NoMsg ELSE DbError)
    /\ UNCHANGED <<users, lessons, quizzes, quiz_questions, enrollments, lesson_progress,
                   quiz_attempts, quiz_answers, assignments, announcements,
                   storeVars, sumPassed, schemaVars, modeVars>>

\* createLesson: INSERT INTO lessons; sequenceNumber is lesson.sequenceNumber || 0,
\* which is the number passed
CreateLesson(c, sequenceNumber) ==
    /\ CanCall
    /\ nextId.lessons <= MaxId
    /\ \E ok \in Outcomes :
        /\ IF ok
           THEN /\ lessons' = lessons \cup {[id |-> nextId.lessons, courseId |-> c,
                                            sequenceNumber |-> sequenceNumber]}
                /\ nextId' = [nextId EXCEPT !.lessons = @ + 1]
           ELSE UNCHANGED <<lessons, nextId>>
        /\ CompleteNow("createLesson", [courseId |-> c, sequenceNumber |-> sequenceNumber],
                       {}, IF ok THEN "ok" ELSE "error", IF ok THEN NoMsg ELSE DbError)
    /\ UNCHANGED <<users, courses, quizzes, quiz_questions, enrollments, lesson_progress,
                   quiz_attempts, quiz_answers, assignments, announcements,
                   storeVars, sumPassed, schemaVars, modeVars>>

\* useQuizStore.createQuiz: INSERT INTO quizzes
CreateQuiz(c) ==
    /\ CanCall
    /\ nextId.quizzes <= MaxId
    /\ \E ok \in Outcomes :
        /\ IF ok
           THEN /\ quizzes' = quizzes \cup {[id |-> nextId.quizzes, courseId |-> c]}
                /\ nextId' = [nextId EXCEPT !.quizzes = @ + 1]
           ELSE UNCHANGED <<quizzes, nextId>>
        /\ CompleteNow("createQuiz", [courseId |-> c], {},
                       IF ok THEN "ok" ELSE "error", IF ok THEN NoMsg ELSE DbError)
    /\ UNCHANGED <<users, courses, lessons, quiz_questions, enrollments, lesson_progress,
                   quiz_attempts, quiz_answers, assignments, announcements,
                   storeVars, sumPassed, schemaVars, modeVars>>

\* INSERT INTO announcements (courseId, teacherId, title, content, attachments,
\* createdAt, updatedAt): the statement needs the table with its attachments
\* column, and a courseId where the column is NOT NULL
AnnouncementInsertable(courseId) ==
    /\ IsSome(schema.announcements)
    /\ Val(schema.announcements).attachments
    /\ Val(schema.announcements).courseIdNotNull => IsSome(courseId)

\* useAnnouncementStore.createAnnouncement: INSERT INTO announcements; courseId
\* is null for a school-wide announcement; the caller attaches nothing
CreateAnnouncement(courseId, teacherId) ==
    /\ CanCall
    /\ nextId.announcements <= MaxId
    /\ \E ok \in Outcomes :
        LET done == ok /\ AnnouncementInsertable(courseId) IN
        /\ IF done
           THEN /\ announcements' = announcements \cup
                        {[id |-> nextId.announcements, courseId |-> courseId,
                          teacherId |-> teacherId, attachments |-> None]}
                /\ nextId' = [nextId EXCEPT !.announcements = @ + 1]
           ELSE UNCHANGED <<announcements, nextId>>
        /\ CompleteNow("createAnnouncement", [courseId |-> courseId, teacherId |-> teacherId],
                       {}, IF done THEN "ok" ELSE "error", IF done THEN NoMsg ELSE DbError)
    /\ UNCHANGED <<users, courses, lessons, quizzes, quiz_questions, enrollments,
                   lesson_progress, quiz_attempts, quiz_answers, assignments,
                   storeVars, sumPassed, schemaVars, modeVars>>

\* an assignment row is inserted (the schema has the table; the operation that
\* fills it is not among the stores above)
CreateAssignment(c) ==
    /\ CanCall
    /\ nextId.assignments <= MaxId
    /\ assignments' = assignments \cup {[id |-> nextId.assignments, courseId |-> c]}
    /\ nextId' = [nextId EXCEPT !.assignments = @ + 1]
    /\ CompleteNow("createAssignment", [courseId |-> c], {}, "ok", NoMsg)
    /\ UNCHANGED <<users, courses, lessons, quizzes, quiz_questions, enrollments,
                   lesson_progress, quiz_attempts, quiz_answers, announcements,
                   storeVars, sumPassed, schemaVars, modeVars>>

\* the rows a DELETE ... WHERE courseId = ? leaves
LessonsLeft(c) == {r \in lessons : r.courseId # c}
QuizzesLeft(c) == {r \in quizzes : r.courseId # c}
EnrollmentsLeft(c) == {r \in enrollments : r.courseId # c}
AnnouncementsLeftById(c) == {r \in announcements : r.id # c}
AnnouncementsLeftSchoolWide(c) ==
    {r \in announcements : IsSome(r.courseId) /\ r.courseId # Some(c)}
AnnouncementsLeft(c) == {r \in announcements : r.courseId # Some(c)}
AssignmentsLeft(c) == {r \in assignments : r.courseId # c}
\* DELETE FROM courses WHERE id = ?
CoursesLeft(c) == {r \in courses : r.id # c}

\* the k-th statement of deleteCourse
DeleteCourseStatementCourseFirst(k, c) ==
    /\ courses' = IF k = 1 THEN CoursesLeft(c) ELSE courses
    /\ quizzes' = IF k = 2 THEN QuizzesLeft(c) ELSE quizzes
    /\ enrollments' = IF k = 3 THEN EnrollmentsLeft(c) ELSE enrollments
    /\ announcements' = IF k = 4 THEN AnnouncementsLeft(c) ELSE announcements
    /\ assignments' = IF k = 5 THEN AssignmentsLeft(c) ELSE assignments
    /\ lessons' = IF k = 6 THEN LessonsLeft(c) ELSE lessons
DeleteCourseStatement(k, c) ==
    /\ lessons' = IF k = 1 THEN LessonsLeft(c) ELSE lessons
    /\ quizzes' = IF k = 2 THEN QuizzesLeft(c) ELSE quizzes
    /\ enrollments' = IF k = 3 THEN EnrollmentsLeft(c) ELSE enrollments
    /\ announcements' = IF k = 4 THEN AnnouncementsLeft(c) ELSE announcements
    /\ assignments' = IF k = 5 THEN AssignmentsLeft(c) ELSE assignments
    /\ courses' = IF k = 6 THEN CoursesLeft(c) ELSE courses
DeleteCourseStatements == 6
courseTables == <<lessons, quizzes, enrollments, announcements, assignments, courses>>
notCourseTables == <<users, quiz_questions, lesson_progress, quiz_attempts, quiz_answers,
                     nextId>>

\* what a course owns, for the properties
RowsOfCourse(c) ==
    [lessons |-> {r \in lessons : r.courseId = c},
     quizzes |-> {r \in quizzes : r.courseId = c},
     enrollments |-> {r \in enrollments : r.courseId = c},
     announcements |-> {r \in announcements : r.courseId = Some(c)},
     assignments |-> {r \in assignments : r.courseId = c},
     courses |-> {r \in courses : r.id = c}]

\* deleteCourse: up to the first await (DELETE FROM lessons)
DeleteCourse(c) ==
    /\ CanCall
    /\ \E ok \in Outcomes :
        IF ok
        THEN /\ DeleteCourseStatement(1, c)
             /\ Start("deleteCourse", 1, [courseId |-> c], <<>>, <<>>)
        ELSE /\ UNCHANGED courseTables
             /\ CompleteNow("deleteCourse", [courseId |-> c], <<>>, "error", DbError)
    /\ UNCHANGED <<notCourseTables, storeVars, sumPassed, schemaVars, modeVars>>

\* deleteCourse: after statement pc, the next statement; after the last, return
DeleteCourseNext(t) ==
    /\ tasks[t].op = "deleteCourse"
    /\ LET k == tasks[t].pc + 1
           c == tasks[t].args.courseId
       IN  \E ok \in Outcomes :
            IF ~ok
            THEN UNCHANGED courseTables /\ Complete(t, "error", DbError)
            ELSE /\ DeleteCourseStatement(k, c)
                 /\ IF k = DeleteCourseStatements
                    THEN Complete(t, "ok", NoMsg)
                    ELSE tasks' = [tasks EXCEPT ![t].pc = k] /\ hist' = hist
    /\ UNCHANGED <<notCourseTables, storeVars, sumPassed, schemaVars, modeVars>>

\* deleteLesson: up to the first await (DELETE FROM lesson_progress WHERE lessonId = ?)
DeleteLesson(l) ==
    /\ CanCall
    /\ \E ok \in Outcomes :
        IF ok
        THEN /\ lesson_progress' = {p \in lesson_progress : p.lessonId # l}
             /\ Start("deleteLesson", 1, [lessonId |-> l], <<>>, <<>>)
        ELSE /\ UNCHANGED lesson_progress
             /\ CompleteNow("deleteLesson", [lessonId |-> l], <<>>, "error", DbError)
    /\ UNCHANGED <<users, courses, lessons, quizzes, quiz_questions, enrollments,
                   quiz_attempts, quiz_answers, assignments, announcements, nextId,
                   storeVars, sumPassed, schemaVars, modeVars>>

\* deleteLesson: after the first statement: DELETE FROM lessons WHERE id = ?
DeleteLessonNext(t) ==
    /\ tasks[t].op = "deleteLesson" /\ tasks[t].pc = 1
    /\ \E ok \in Outcomes :
        IF ok
        THEN /\ lessons' = {l \in lessons : l.id # tasks[t].args.lessonId}
             /\ Complete(t, "ok", NoMsg)
        ELSE UNCHANGED lessons /\ Complete(t, "error", DbError)
    /\ UNCHANGED <<users, courses, quizzes, quiz_questions, enrollments, lesson_progress,
                   quiz_attempts, quiz_answers, assignments, announcements, nextId,
                   storeVars, sumPassed, schemaVars, modeVars>>

\* ORDER BY sequenceNumber ASC: the rows in an order that is ascending in
\* sequenceNumber (rows with equal numbers come in any order)
OrderById(rows) ==
    {q \in Perms(rows) : \A i, j \in 1 .. Len(q) : i < j => q[i].id < q[j].id}
OrderBySequenceNumber(rows) ==
    {q \in Perms(rows) :
        \A i, j \in 1 .. Len(q) : i < j => q[i].sequenceNumber <= q[j].sequenceNumber}

\* fetchLessons: up to the first await (the SELECT)
FetchLessons(c) ==
    /\ CanCall
    /\ courseIsLoading' = TRUE
    /\ \E ok \in Outcomes :
        \E result \in OrderBySequenceNumber({r \in lessons : r.courseId = c}) :
            Start("fetchLessons", 1, [courseId |-> c],
                  [ok |-> ok, res |-> IF ok THEN result ELSE <<>>], {})
    /\ UNCHANGED <<dbVars, authVars, progressVars, lessonsCache, quizVars, screenVars, sumPassed, schemaVars, modeVars>>

\* fetchLessons: after the SELECT: the cache is set; an error is logged and
\* swallowed; finally
FetchLessonsDone(t) ==
    /\ tasks[t].op = "fetchLessons" /\ tasks[t].pc = 1
    /\ lessonsCache' = IF tasks[t].loc.ok THEN tasks[t].loc.res ELSE lessonsCache
    /\ courseIsLoading' = FALSE
    /\ IF tasks[t].loc.ok THEN Complete(t, "ok", NoMsg)
       ELSE Complete(t, "swallowed", DbError)
    /\ UNCHANGED <<dbVars, authVars, progressVars, quizVars, screenVars, sumPassed, schemaVars, modeVars>>

(***************************************************************************)
(* useQuizStore and the quiz screen                                        *)
(***************************************************************************)
notQuizTables == <<users, courses, lessons, quizzes, enrollments, lesson_progress,
                   assignments, announcements>>

\* addQuestion: INSERT INTO quiz_questions
AddQuestion(quizId, correctAnswer, sequenceNumber) ==
    /\ CanCall
    /\ nextId.quiz_questions <= MaxId
    /\ \E ok \in Outcomes :
        /\ IF ok
           THEN /\ quiz_questions' = quiz_questions \cup
                        {[id |-> nextId.quiz_questions, quizId |-> quizId,
                          correctAnswer |-> correctAnswer,
                          sequenceNumber |-> sequenceNumber]}
                /\ nextId' = [nextId EXCEPT !.quiz_questions = @ + 1]
           ELSE UNCHANGED <<quiz_questions, nextId>>
        /\ CompleteNow("addQuestion", [quizId |-> quizId], {},
                       IF ok THEN "ok" ELSE "error", IF ok THEN NoMsg ELSE DbError)
    /\ UNCHANGED <<notQuizTables, quiz_attempts, quiz_answers, storeVars, sumPassed,
                   schemaVars, modeVars>>

\* the screen is mounted for quizId (its state is fresh) and loadQuiz runs up
\* to its first await: getQuizById's SELECT, which returns null on an error
LoadQuiz(quizId) ==
    /\ CanCall
    /\ quiz' = None
    /\ answers' = [q \in QuestionIds |-> ""]
    /\ quizResult' = None
    /\ \E ok \in Outcomes :
        \E result \in FirstOf({r \in quizzes : r.id = quizId}) :
            Start("loadQuiz", 1, [quizId |-> quizId],
                  [ok |-> TRUE, res |-> IF ok THEN result ELSE None], {})
    /\ UNCHANGED <<dbVars, authVars, progressVars, courseVars, quizVars, sumPassed, schemaVars, modeVars>>

\* loadQuiz: setQuiz(quizData), then fetchQuizQuestions up to its SELECT
LoadQuizFetch(t) ==
    /\ tasks[t].op = "loadQuiz" /\ tasks[t].pc = 1
    /\ quiz' = tasks[t].loc.res
    /\ quizIsLoading' = TRUE
    /\ \E ok \in Outcomes :
        \E result \in OrderBySequenceNumber(
                        {r \in quiz_questions : r.quizId = tasks[t].args.quizId}) :
            Goto(t, 2, [ok |-> ok, res |-> IF ok THEN result ELSE <<>>])
    /\ UNCHANGED <<dbVars, authVars, progressVars, courseVars, quizQuestions, answers, quizResult,
                   sumPassed, schemaVars, modeVars>>

\* loadQuiz: fetchQuizQuestions after its SELECT: the cache is set, or the
\* error logged and swallowed
LoadQuizDone(t) ==
    /\ tasks[t].op = "loadQuiz" /\ tasks[t].pc = 2
    /\ quizQuestions' = IF tasks[t].loc.ok THEN tasks[t].loc.res ELSE quizQuestions
    /\ quizIsLoading' = FALSE
    /\ Complete(t, "ok", NoMsg)
    /\ UNCHANGED <<dbVars, authVars, progressVars, courseVars, screenVars, sumPassed, schemaVars, modeVars>>

\* handleAnswerChange: the answer picked for a question the screen shows
HandleAnswerChange(questionId, answer) ==
    /\ AllIdle
    /\ IsSome(quiz)
    /\ \E i \in 1 .. Len(quizQuestions) : quizQuestions[i].id = questionId
    /\ answers' = [answers EXCEPT ![questionId] = answer]
    /\ UNCHANGED <<dbVars, authVars, progressVars, courseVars, quizVars, quiz, quizResult, tasks, hist,
                   sumPassed, schemaVars, modeVars>>

\* numbers that need not be whole: <<n, d>> is n / d, and NaN when d = 0
Num(n) == <<n, 1>>
Percent(count, total) == <<count * 100, total>>
SameNumber(x, y) == x[2] # 0 /\ y[2] # 0 /\ x[1] * y[2] = y[1] * x[2]

\* submitQuizAttempt: INSERT INTO quiz_attempts (studentId, quizId, score,
\* totalQuestions, correctAnswers, timeSpent)
InsertAttempt(attempt) ==
    /\ quiz_attempts' = quiz_attempts \cup
            {[id |-> nextId.quiz_attempts, studentId |-> attempt.studentId,
              quizId |-> attempt.quizId, score |-> attempt.score,
              totalQuestions |-> attempt.totalQuestions,
              correctAnswers |-> attempt.correctAnswers]}
    /\ nextId' = [nextId EXCEPT !.quiz_attempts = @ + 1]

\* recordAnswer: INSERT INTO quiz_answers (attemptId, questionId,
\* studentAnswer, isCorrect)
InsertAnswer(attemptId, questionId, answer, isCorrect) ==
    /\ quiz_answers' = quiz_answers \cup
            {[id |-> nextId.quiz_answers, attemptId |-> attemptId,
              questionId |-> questionId, studentAnswer |-> answer,
              isCorrect |-> IF isCorrect THEN 1 ELSE 0]}
    /\ nextId' = [nextId EXCEPT !.quiz_answers = @ + 1]

\* handleSubmitQuiz, 'Submit' pressed: up to the first await, submitQuizAttempt
\* with score 0 and correctAnswers 0
HandleSubmitQuiz ==
    /\ CanCall
    /\ IsSome(user) /\ IsSome(quiz)
    /\ nextId.quiz_attempts <= MaxId
    /\ nextId.quiz_answers + Len(quizQuestions) <= MaxId + 1
    /\ LET args == [quizId |-> Val(quiz).id, studentId |-> Val(user).id]
           pre == [questions |-> quizQuestions, answers |-> answers]
       IN  \E ok \in Outcomes :
            IF ok
            THEN /\ InsertAttempt([studentId |-> Val(user).id, quizId |-> Val(quiz).id,
                                   score |-> Num(0),
                                   totalQuestions |-> Len(quizQuestions),
                                   correctAnswers |-> 0])
                 /\ Start("handleSubmitQuiz", 1, args,
                          [attemptId |-> nextId.quiz_attempts, next |-> 1,
                           correctCount |-> 0], pre)
            ELSE /\ UNCHANGED <<quiz_attempts, nextId>>
                 /\ CompleteNow("handleSubmitQuiz", args, pre, "error", DbError)
    /\ UNCHANGED <<notQuizTables, quiz_questions, quiz_answers, storeVars, sumPassed,
                   schemaVars, modeVars>>

\* handleSubmitQuiz: the loop over quizQuestions, one recordAnswer per step;
\* after the last, the score is computed and handed to the QuizResult screen
HandleSubmitQuizNext(t) ==
    /\ tasks[t].op = "handleSubmitQuiz"
    /\ LET l == tasks[t].loc
       IN  IF l.next <= Len(quizQuestions)
           THEN LET question == quizQuestions[l.next]
                    studentAnswer == answers[question.id]
                    isCorrect == studentAnswer = question.correctAnswer
                    correctCount == l.correctCount + (IF isCorrect THEN 1 ELSE 0)
                IN  /\ \E ok \in Outcomes :
                        IF ok
                        THEN /\ InsertAnswer(l.attemptId, question.id, studentAnswer,
                                             isCorrect)
                             /\ Goto(t, 1, [l EXCEPT !.next = @ + 1,
                                                     !.correctCount = correctCount])
                        ELSE /\ UNCHANGED <<quiz_answers, nextId>>
                             /\ Complete(t, "error", DbError)
                    /\ quizResult' = quizResult
           ELSE /\ quizResult' = Some([score |-> Percent(l.correctCount, Len(quizQuestions)),
                                       correctAnswers |-> l.correctCount,
                                       totalQuestions |-> Len(quizQuestions)])
                /\ Complete(t, "ok", NoMsg)
                /\ UNCHANGED <<quiz_answers, nextId>>
    /\ UNCHANGED <<notQuizTables, quiz_questions, quiz_attempts, authVars, progressVars, courseVars,
                   quizVars, quiz, answers, sumPassed, schemaVars, modeVars>>

\* submitQuizAttempt, called on its own: the INSERT, the new id returned
SubmitQuizAttempt(attempt) ==
    /\ CanCall
    /\ nextId.quiz_attempts <= MaxId
    /\ \E ok \in Outcomes :
        /\ IF ok THEN InsertAttempt(attempt) ELSE UNCHANGED <<quiz_attempts, nextId>>
        /\ CompleteNow("submitQuizAttempt", attempt, {},
                       IF ok THEN "ok" ELSE "error",
                       IF ok THEN <<nextId.quiz_attempts>> ELSE DbError)
    /\ UNCHANGED <<notQuizTables, quiz_questions, quiz_answers, storeVars, sumPassed,
                   schemaVars, modeVars>>

\* recordAnswer, called on its own: the INSERT
RecordAnswer(attemptId, questionId, answer, isCorrect) ==
    /\ CanCall
    /\ nextId.quiz_answers <= MaxId
    /\ \E ok \in Outcomes :
        /\ IF ok THEN InsertAnswer(attemptId, questionId, answer, isCorrect)
           ELSE UNCHANGED <<quiz_answers, nextId>>
        /\ CompleteNow("recordAnswer", [attemptId |-> attemptId, questionId |-> questionId],
                       {}, IF ok THEN "ok" ELSE "error", IF ok THEN NoMsg ELSE DbError)
    /\ UNCHANGED <<notQuizTables, quiz_questions, quiz_attempts, storeVars, sumPassed,
                   schemaVars, modeVars>>

\* the rows deleteQuiz(q) and deleteQuestion(x) are about, for the properties
RowsOfQuiz(q) ==
    [quiz_questions |-> {r \in quiz_questions : r.quizId = q},
     quiz_attempts |-> {r \in quiz_attempts : r.quizId = q},
     quizzes |-> {r \in quizzes : r.id = q}]
RowsOfQuestion(x) ==
    [quiz_answers |-> {r \in quiz_answers : r.questionId = x},
     quiz_questions |-> {r \in quiz_questions : r.id = x}]

\* deleteQuiz, statement k: DELETE FROM quiz_questions WHERE quizId = ?;
\* DELETE FROM quiz_attempts WHERE quizId = ?; DELETE FROM quizzes WHERE id = ?
DeleteQuizStatementQuizFirst(k, q) ==
    /\ quizzes' = IF k = 1 THEN quizzes \ RowsOfQuiz(q).quizzes ELSE quizzes
    /\ quiz_attempts' = IF k = 2 THEN quiz_attempts \ RowsOfQuiz(q).quiz_attempts
                        ELSE quiz_attempts
    /\ quiz_questions' = IF k = 3 THEN quiz_questions \ RowsOfQuiz(q).quiz_questions
                         ELSE quiz_questions
DeleteQuizStatement(k, q) ==
    /\ quiz_questions' = IF k = 1 THEN quiz_questions \ RowsOfQuiz(q).quiz_questions
                         ELSE quiz_questions
    /\ quiz_attempts' = IF k = 2 THEN quiz_attempts \ RowsOfQuiz(q).quiz_attempts
                        ELSE quiz_attempts
    /\ quizzes' = IF k = 3 THEN quizzes \ RowsOfQuiz(q).quizzes ELSE quizzes
DeleteQuizStatements == 3
quizDeleteTables == <<quiz_questions, quiz_attempts, quizzes>>
notQuizDeleteTables == <<users, courses, lessons, enrollments, lesson_progress,
                         quiz_answers, assignments, announcements, nextId>>

\* deleteQuiz: up to the first await (DELETE FROM quiz_questions)
DeleteQuiz(q) ==
    /\ CanCall
    /\ \E ok \in Outcomes :
        IF ok
        THEN /\ DeleteQuizStatement(1, q)
             /\ Start("deleteQuiz", 1, [quizId |-> q], <<>>, Snapshot(RowsOfQuiz(q)))
        ELSE /\ UNCHANGED quizDeleteTables
             /\ CompleteNow("deleteQuiz", [quizId |-> q], Snapshot(RowsOfQuiz(q)),
                            "error", DbError)
    /\ UNCHANGED <<notQuizDeleteTables, storeVars, sumPassed, schemaVars, modeVars>>

\* deleteQuiz: after statement pc, the next statement; after the last, return
DeleteQuizNext(t) ==
    /\ tasks[t].op = "deleteQuiz"
    /\ LET k == tasks[t].pc + 1
           q == tasks[t].args.quizId
       IN  \E ok \in Outcomes :
            IF ~ok
            THEN UNCHANGED quizDeleteTables /\ Complete(t, "error", DbError)
            ELSE /\ DeleteQuizStatement(k, q)
                 /\ IF k = DeleteQuizStatements
                    THEN Complete(t, "ok", NoMsg)
                    ELSE Goto(t, k, tasks[t].loc)
    /\ UNCHANGED <<notQuizDeleteTables, storeVars, sumPassed, schemaVars, modeVars>>

\* deleteQuestion: up to the first await (DELETE FROM quiz_answers WHERE questionId = ?)
DeleteQuestion(x) ==
    /\ CanCall
    /\ \E ok \in Outcomes :
        IF ok
        THEN /\ quiz_answers' = quiz_answers \ RowsOfQuestion(x).quiz_answers
             /\ Start("deleteQuestion", 1, [questionId |-> x], <<>>,
                      Snapshot(RowsOfQuestion(x)))
        ELSE /\ UNCHANGED quiz_answers
             /\ CompleteNow("deleteQuestion", [questionId |-> x],
                            Snapshot(RowsOfQuestion(x)), "error", DbError)
    /\ UNCHANGED <<notQuizTables, quiz_questions, quiz_attempts, nextId, storeVars,
                   sumPassed, schemaVars, modeVars>>

\* deleteQuestion: after the first statement: DELETE FROM quiz_questions WHERE id = ?
DeleteQuestionNext(t) ==
    /\ tasks[t].op = "deleteQuestion" /\ tasks[t].pc = 1
    /\ \E ok \in Outcomes :
        IF ok
        THEN /\ quiz_questions' =
                    quiz_questions \ RowsOfQuestion(tasks[t].args.questionId).quiz_questions
             /\ Complete(t, "ok", NoMsg)
        ELSE UNCHANGED quiz_questions /\ Complete(t, "error", DbError)
    /\ UNCHANGED <<notQuizTables, quiz_answers, quiz_attempts, nextId, storeVars,
                   sumPassed, schemaVars, modeVars>>

(***************************************************************************)
(* services/database.ts: initializeDatabase and migrateDatabase            *)
(***************************************************************************)
\* the tables initializeDatabase creates, in the order of its statements
CreateOrder == <<"users", "courses", "lessons", "quizzes", "quiz_questions",
                 "enrollments", "lesson_progress", "quiz_attempts", "quiz_answers",
                 "assignments", "assignment_submissions", "announcements">>

\* the columns of announcements the migration looks at
Columns(notnull, attachments) == [courseIdNotNull |-> notnull, attachments |-> attachments]
\* CREATE TABLE IF NOT EXISTS announcements (courseId INTEGER, ..., attachments TEXT, ...)
CurrentColumns == Columns(FALSE, TRUE)

\* the schema initializeDatabase leaves on a fresh install
CurrentSchema ==
    [tables |-> {CreateOrder[k] : k \in 1..Len(CreateOrder)},
     announcements |-> Some(CurrentColumns),
     announcements_new |-> None]
\* the schemas a device may hold when the app starts: no database yet, or the
\* database of a release whose announcements table had courseId NOT NULL and/or
\* no attachments column
InstalledSchemas ==
    {[tables |-> {}, announcements |-> None, announcements_new |-> None]} \cup
    {[CurrentSchema EXCEPT !.announcements = Some(Columns(n, a))] : n, a \in BOOLEAN}

\* AUTOINCREMENT of a table whose rows were inserted with their ids: one more
\* than the largest id
NextRowId(rows) ==
    IF rows = {} THEN 1
    ELSE 1 + (CHOOSE i \in {r.id : r \in rows} : \A r \in rows : r.id <= i)

\* the announcements an installed release may have stored: none, or one
\* (course-wide where courseId is NOT NULL; with an attachment where the
\* table has the column)
InstalledAnnouncements(s) ==
    IF s.announcements = None THEN {{}}
    ELSE {{}} \cup
         {{[id |-> 1, courseId |-> c, teacherId |-> 1, attachments |-> a]} :
            c \in IF Val(s.announcements).courseIdNotNull
                  THEN {Some(1)} ELSE {Some(1), None},
            a \in IF Val(s.announcements).attachments
                  THEN {None, Some("a.pdf")} ELSE {None}}

\* CREATE TABLE IF NOT EXISTS <CreateOrder[k]>
CreateTableIfNotExists(k) ==
    IF CreateOrder[k] \in schema.tables
    THEN UNCHANGED <<schema, announcements, nextId>>
    ELSE /\ schema' = [schema EXCEPT
                         !.tables = @ \cup {CreateOrder[k]},
                         !.announcements = IF CreateOrder[k] = "announcements"
                                           THEN Some(CurrentColumns) ELSE @]
         /\ UNCHANGED announcements
         /\ nextId' = IF CreateOrder[k] = "announcements"
                      THEN [nextId EXCEPT !.announcements = 1] ELSE nextId

\* initializeDatabase, up to its first statement; a statement that fails ends the
\* call with the error (catch: throw error)
InitializeDatabase ==
    /\ CanCall
    /\ InFlight("initializeDatabase") = 0
    /\ \E ok \in Outcomes :
        IF ok
        THEN /\ CreateTableIfNotExists(1)
             /\ failedIn' = {}
             /\ Start("initializeDatabase", "create", <<>>, [k |-> 2, tableInfo |-> None],
                      [schema |-> schema, announcements |-> announcements])
        ELSE /\ failedIn' = {<<"initialize", CreateOrder[1]>>}
             /\ CompleteNow("initializeDatabase", <<>>,
                            [schema |-> schema, announcements |-> announcements],
                            "error", DbError)
             /\ UNCHANGED <<schema, announcements, nextId>>
    /\ UNCHANGED <<users, courses, lessons, quizzes, quiz_questions, enrollments,
                   lesson_progress, quiz_attempts, quiz_answers, assignments,
                   storeVars, sumPassed, modeVars>>

\* the next create-table statement of initializeDatabase; after the last one
\* the call goes on to migrateDatabase
InitializeDatabaseCreate(t) ==
    /\ tasks[t].op = "initializeDatabase" /\ tasks[t].pc = "create"
    /\ LET k == tasks[t].loc.k IN
       \E ok \in Outcomes :
        IF ok
        THEN /\ CreateTableIfNotExists(k)
             /\ UNCHANGED failedIn
             /\ IF k < Len(CreateOrder)
                THEN Goto(t, "create", [tasks[t].loc EXCEPT !.k = k + 1])
                ELSE Goto(t, "PRAGMA", tasks[t].loc)
        ELSE /\ failedIn' = failedIn \cup {<<"initialize", CreateOrder[k]>>}
             /\ Complete(t, "error", DbError)
             /\ UNCHANGED <<schema, announcements, nextId>>
    /\ UNCHANGED <<users, courses, lessons, quizzes, quiz_questions, enrollments,
                   lesson_progress, quiz_attempts, quiz_answers, assignments,
                   storeVars, sumPassed, modeVars>>

\* migrateDatabase's outer catch: log the error and return; initializeDatabase
\* then returns too
MigrateCatchRethrows(t) == Complete(t, "error", DbError)
MigrateCatch(t) == Complete(t, "ok", NoMsg)

\* a statement of migrateDatabase failed
MigrateFailed(t, statement) ==
    /\ failedIn' = failedIn \cup {<<"migrate", statement>>}
    /\ MigrateCatch(t)
    /\ UNCHANGED <<schema, announcements, nextId>>

\* where migrateDatabase goes after the PRAGMA, and after migration 1
AfterPragma(info) ==
    IF IsSome(info) /\ Val(info).courseIdNotNull THEN "CREATE announcements_new"
    ELSE IF ~(IsSome(info) /\ Val(info).attachments) THEN "ADD COLUMN attachments"
    ELSE "return"

\* PRAGMA table_info(announcements): the columns of the table (none when the
\* table does not exist)
MigratePragma(t) ==
    /\ tasks[t].op = "initializeDatabase" /\ tasks[t].pc = "PRAGMA"
    /\ \E ok \in Outcomes :
        IF ok
        THEN /\ UNCHANGED <<schema, announcements, nextId, failedIn>>
             /\ IF AfterPragma(schema.announcements) = "return"
                THEN Complete(t, "ok", NoMsg)
                ELSE Goto(t, AfterPragma(schema.announcements),
                          [tasks[t].loc EXCEPT !.tableInfo = schema.announcements])
        ELSE MigrateFailed(t, "PRAGMA")
    /\ UNCHANGED <<users, courses, lessons, quizzes, quiz_questions, enrollments,
                   lesson_progress, quiz_attempts, quiz_answers, assignments,
                   storeVars, sumPassed, modeVars>>

\* migration 1, statement 1: CREATE TABLE announcements_new; the statement has
\* no IF NOT EXISTS, so it fails when a previous run left the table behind
MigrateCreateNew(t) ==
    /\ tasks[t].op = "initializeDatabase" /\ tasks[t].pc = "CREATE announcements_new"
    /\ \E ok \in Outcomes :
        IF ok /\ schema.announcements_new = None
        THEN /\ schema' = [schema EXCEPT !.announcements_new = Some({})]
             /\ UNCHANGED <<announcements, nextId, failedIn>>
             /\ Goto(t, "INSERT SELECT", tasks[t].loc)
        ELSE MigrateFailed(t, "CREATE announcements_new")
    /\ UNCHANGED <<users, courses, lessons, quizzes, quiz_questions, enrollments,
                   lesson_progress, quiz_attempts, quiz_answers, assignments,
                   storeVars, sumPassed, modeVars>>

\* INSERT INTO announcements_new (id, courseId, teacherId, title, content,
\* createdAt, updatedAt) SELECT the same columns: attachments is not copied
\* and is NULL in the new row
CopyRowWithoutCourse(r) == [r EXCEPT !.courseId = None, !.attachments = None]
CopyRow(r) == [r EXCEPT !.attachments = None]

\* migration 1, statement 2: INSERT INTO announcements_new SELECT ... FROM announcements
MigrateCopy(t) ==
    /\ tasks[t].op = "initializeDatabase" /\ tasks[t].pc = "INSERT SELECT"
    /\ \E ok \in Outcomes :
        IF ok
        THEN /\ schema' = [schema EXCEPT !.announcements_new =
                                Some({CopyRow(r) : r \in announcements})]
             /\ UNCHANGED <<announcements, nextId, failedIn>>
             /\ Goto(t, "DROP announcements", tasks[t].loc)
        ELSE MigrateFailed(t, "INSERT SELECT")
    /\ UNCHANGED <<users, courses, lessons, quizzes, quiz_questions, enrollments,
                   lesson_progress, quiz_attempts, quiz_answers, assignments,
                   storeVars, sumPassed, modeVars>>

\* migration 1, statement 3: DROP TABLE announcements
MigrateDrop(t) ==
    /\ tasks[t].op = "initializeDatabase" /\ tasks[t].pc = "DROP announcements"
    /\ \E ok \in Outcomes :
        IF ok
        THEN /\ schema' = [schema EXCEPT !.tables = @ \ {"announcements"},
                                         !.announcements = None]
             /\ announcements' = {}
             /\ UNCHANGED <<nextId, failedIn>>
             /\ Goto(t, "RENAME", tasks[t].loc)
        ELSE MigrateFailed(t, "DROP announcements")
    /\ UNCHANGED <<users, courses, lessons, quizzes, quiz_questions, enrollments,
                   lesson_progress, quiz_attempts, quiz_answers, assignments,
                   storeVars, sumPassed, modeVars>>

\* migration 1, statement 4: ALTER TABLE announcements_new RENAME TO announcements
\* (the table keeps its rows and its AUTOINCREMENT counter);
\* migration 2 then tests the columns the PRAGMA saw before migration 1
MigrateRename(t) ==
    /\ tasks[t].op = "initializeDatabase" /\ tasks[t].pc = "RENAME"
    /\ \E ok \in Outcomes :
        IF ok
        THEN /\ schema' = [schema EXCEPT !.tables = @ \cup {"announcements"},
                                         !.announcements = Some(CurrentColumns),
                                         !.announcements_new = None]
             /\ announcements' = Val(schema.announcements_new)
             /\ nextId' = [nextId EXCEPT !.announcements =
                               NextRowId(Val(schema.announcements_new))]
             /\ UNCHANGED failedIn
             /\ IF ~Val(tasks[t].loc.tableInfo).attachments
                THEN Goto(t, "ADD COLUMN attachments", tasks[t].loc)
                ELSE Complete(t, "ok", NoMsg)
        ELSE MigrateFailed(t, "RENAME")
    /\ UNCHANGED <<users, courses, lessons, quizzes, quiz_questions, enrollments,
                   lesson_progress, quiz_attempts, quiz_answers, assignments,
                   storeVars, sumPassed, modeVars>>

\* migration 2: ALTER TABLE announcements ADD COLUMN attachments TEXT, in a
\* try/catch of its own; the statement fails when the table is missing or has
\* the column already
MigrateAddColumn(t) ==
    /\ tasks[t].op = "initializeDatabase" /\ tasks[t].pc = "ADD COLUMN attachments"
    /\ \E ok \in Outcomes :
        /\ IF ok /\ IsSome(schema.announcements) /\ ~Val(schema.announcements).attachments
           THEN /\ schema' = [schema EXCEPT !.announcements =
                                Some([Val(@) EXCEPT !.attachments = TRUE])]
                /\ UNCHANGED failedIn
           ELSE /\ failedIn' = failedIn \cup {<<"migrate", "ADD COLUMN attachments">>}
                /\ UNCHANGED schema
        /\ Complete(t, "ok", NoMsg)
    /\ UNCHANGED <<dbVars, storeVars, sumPassed, modeVars>>

(***************************************************************************)
(* Initial states and specifications                                       *)
(***************************************************************************)
Tables == {"users", "courses", "lessons", "quizzes", "quiz_questions",
           "enrollments", "lesson_progress", "quiz_attempts", "quiz_answers",
           "assignments", "announcements"}

\* the rows inserted so far, and the inserts in flight
RECURSIVE SumNextId(_)
SumNextId(T) ==
    IF T = {} THEN 0
    ELSE LET t == CHOOSE x \in T : TRUE IN (nextId[t] - 1) + SumNextId(T \ {t})
MayInsert ==
    SumNextId(Tables) + Cardinality({t \in TaskIds : tasks[t] # Idle}) < MaxInserts

\* the rows inserted so far, capped by MaxRows
MayAddRow ==
    SumNextId(Tables) + Cardinality({t \in TaskIds : tasks[t] # Idle}) < MaxRows

\* the stores as constructed
InitStoreState ==
    /\ user = None /\ isLoggedIn = FALSE /\ isLoading = FALSE
    /\ currentUser = None
    /\ enrollmentsCache = <<>> /\ progressIsLoading = FALSE
    /\ lessonsCache = <<>> /\ courseIsLoading = FALSE
    /\ quizQuestions = <<>> /\ quizIsLoading = FALSE
    /\ quiz = None /\ answers = [q \in QuestionIds |-> ""] /\ quizResult = None
    /\ tasks = [t \in TaskIds |-> Idle]
    /\ hist = <<>>
    /\ sumPassed = [s \in Students, l \in LessonIds |-> 0]
    /\ failedIn = {}
\* the stores as constructed, over empty tables
InitStores ==
    /\ users = {} /\ courses = {} /\ lessons = {} /\ quizzes = {}
    /\ quiz_questions = {} /\ enrollments = {} /\ lesson_progress = {}
    /\ quiz_attempts = {} /\ quiz_answers = {} /\ assignments = {}
    /\ announcements = {}
    /\ nextId = [t \in Tables |-> 1]
    /\ InitStoreState

\* the state after initializeDatabase on a fresh install and the stores'
\* construction
InitState == InitStores /\ schema = CurrentSchema

\* the app starts on a device of InstalledSchemas; initializeDatabase runs at
\* every start, any statement may fail, and teachers post announcements while
\* the table exists
InitInstalled ==
    /\ schema \in InstalledSchemas
    /\ users = {} /\ courses = {} /\ lessons = {} /\ quizzes = {}
    /\ quiz_questions = {} /\ enrollments = {} /\ lesson_progress = {}
    /\ quiz_attempts = {} /\ quiz_answers = {} /\ assignments = {}
    /\ announcements \in InstalledAnnouncements(schema)
    /\ nextId = [t \in Tables |-> IF t = "announcements"
                                  THEN NextRowId(announcements) ELSE 1]
    /\ InitStoreState
InitBoot == InitInstalled /\ serial = TRUE /\ keep = 1 /\ faults = TRUE
\* the same, with the last two outcomes kept
InitBootRetry == InitInstalled /\ serial = TRUE /\ keep = 2 /\ faults = TRUE

NextBoot ==
    \/ InitializeDatabase
    \/ \E t \in TaskIds : InitializeDatabaseCreate(t)
    \/ \E t \in TaskIds : MigratePragma(t)
    \/ \E t \in TaskIds : MigrateCreateNew(t)
    \/ \E t \in TaskIds : MigrateCopy(t)
    \/ \E t \in TaskIds : MigrateDrop(t)
    \/ \E t \in TaskIds : MigrateRename(t)
    \/ \E t \in TaskIds : MigrateAddColumn(t)
    \/ \E u \in Teachers : CreateAnnouncement(Some(1), u)

SpecBootSeq == InitBoot /\ [][NextBoot]_vars
SpecBootRetrySeq == InitBootRetry /\ [][NextBoot]_vars

NextAuth ==
    \/ \E e \in Emails, p \in Passwords, n \in Names, r \in Roles : Signup(e, p, n, r)
    \/ \E t \in TaskIds : SignupInsert(t)
    \/ \E t \in TaskIds : SignupDone(t)
    \/ \E e \in Emails, p \in Passwords, r \in Roles : Login(e, p, r)
    \/ \E t \in TaskIds : LoginFound(t)
    \/ \E t \in TaskIds : LoginSaved(t)
    \/ \E t \in TaskIds : LoginRejected(t)
    \/ Logout

\* the screens' use of the auth store: one call at a time, storage never fails
InitSeq == InitState /\ serial = TRUE /\ keep = 2 /\ faults = FALSE
SpecAuthSeq == InitSeq /\ [][NextAuth]_vars

\* the session operations of one account, one call at a time
NextSession ==
    \/ \E r \in Roles : Signup("a@x", "pw1", "Ann", r)
    \/ \E t \in TaskIds : SignupInsert(t)
    \/ \E t \in TaskIds : SignupDone(t)
    \/ \E r \in Roles : Login("a@x", "pw1", r)
    \/ \E t \in TaskIds : LoginFound(t)
    \/ \E t \in TaskIds : LoginSaved(t)
    \/ \E t \in TaskIds : LoginRejected(t)
    \/ Logout
    \/ GetCurrentUser
    \/ \E t \in TaskIds : GetCurrentUserDone(t)
    \/ \E n \in ProfileNames, b \in Bios : UpdateProfile(n, b)
    \/ \E t \in TaskIds : UpdateProfileSave(t)
    \/ \E t \in TaskIds : UpdateProfileDone(t)
SpecSessionSeq == InitSeq /\ [][NextSession]_vars
\* the same, with statements of the database and of the key-value storage
\* that may fail
InitSessionFaults == InitState /\ serial = TRUE /\ keep = 1 /\ faults = TRUE
SpecSessionFaultsSeq == InitSessionFaults /\ [][NextSession]_vars

\* calls interleave at their awaits
InitConc == InitState /\ serial = FALSE /\ keep = 1 /\ faults = FALSE
\* the session operations of one account, interleaved at their awaits
SpecSession == InitConc /\ [][NextSession]_vars
NextSignup ==
    \/ \E e \in Emails, p \in Passwords, n \in Names, r \in Roles : Signup(e, p, n, r)
    \/ \E t \in TaskIds : SignupInsert(t)
    \/ \E t \in TaskIds : SignupDone(t)
SpecSignup == InitConc /\ [][NextSignup]_vars

NextEnroll ==
    \/ \E s \in Students, c \in CourseIds : EnrollInCourse(s, c)
    \/ \E t \in TaskIds : EnrollInCourseWrite(t)
    \/ \E s \in Students, c \in CourseIds : UnenrollFromCourse(s, c)
    \/ \E i \in 1 .. MaxId, pct \in Percentages : UpdateEnrollmentProgress(i, pct)
SpecEnrollSeq == InitSeq /\ [][NextEnroll]_vars
SpecEnroll == InitConc /\ [][NextEnroll]_vars

NextLesson ==
    \/ \E s \in Students, l \in LessonIds : MarkLessonComplete(s, l)
    \/ \E t \in TaskIds : MarkLessonCompleteWrite(t)
    \/ \E s \in Students, l \in LessonIds : MarkLessonIncomplete(s, l)
    \/ \E s \in Students, l \in LessonIds, dt \in Increments :
            UpdateLessonTimeSpent(s, l, dt)
    \/ \E t \in TaskIds : UpdateLessonTimeSpentWrite(t)
SpecLessonSeq == InitSeq /\ [][NextLesson]_vars
\* the same calls, interleaved at their await points
SpecLesson == InitConc /\ [][NextLesson]_vars

\* the student screens' calls on enrollments and lesson progress, and the
\* teacher's deleteCourse, one call at a time; hist keeps the last outcome
InitProgress == InitState /\ serial = TRUE /\ keep = 1 /\ faults = FALSE
NextProgress ==
    \/ MayInsert /\ \E c \in CourseIds : EnrollInCourse(1, c)
    \/ \E t \in TaskIds : EnrollInCourseWrite(t)
    \/ \E c \in CourseIds : UnenrollFromCourse(1, c)
    \/ \E i \in 1 .. MaxId, pct \in ProgressInputs : UpdateEnrollmentProgress(i, pct)
    \/ \E c \in CourseIds : GetCourseProgress(1, c)
    \/ \E t \in TaskIds : GetCourseProgressDone(t)
    \/ MayInsert /\ MarkLessonComplete(1, 1)
    \/ \E t \in TaskIds : MarkLessonCompleteWrite(t)
    \/ MarkLessonIncomplete(1, 1)
    \/ MayInsert /\ UpdateLessonTimeSpent(1, 1, 1)
    \/ \E t \in TaskIds : UpdateLessonTimeSpentWrite(t)
    \/ \E c \in CourseIds : DeleteCourse(c)
    \/ \E t \in TaskIds : DeleteCourseNext(t)
SpecProgressSeq == InitProgress /\ [][NextProgress]_vars

\* the teacher screens, one call at a time: rows are created for, and
\* deleteCourse is called on, a course that is listed (its row exists); hist
\* keeps the last outcome
InitDelete == InitState /\ serial = TRUE /\ keep = 1 /\ faults = FALSE
Listed == {r.id : r \in courses}
\* the rows created so far in the tables of course-owned rows
OwnedCreated ==
    nextId.lessons + nextId.quizzes + nextId.enrollments + nextId.announcements
        + nextId.assignments - 5 + InFlight("enrollInCourse")
MayCreate == OwnedCreated < MaxRows
NextDelete ==
    \/ \E tch \in Teachers : CreateCourse(tch)
    \/ MayCreate /\ \E c \in Listed : CreateLesson(c, 1)
    \/ MayCreate /\ \E c \in Listed : CreateQuiz(c)
    \/ MayCreate /\ \E c \in Listed : EnrollInCourse(1, c)
    \/ \E t \in TaskIds : EnrollInCourseWrite(t)
    \/ MayCreate /\ \E c \in Listed, tch \in Teachers : CreateAnnouncement(Some(c), tch)
    \/ MayCreate /\ \E tch \in Teachers : CreateAnnouncement(None, tch)
    \/ MayCreate /\ \E c \in Listed : CreateAssignment(c)
    \/ \E c \in Listed : DeleteCourse(c)
    \/ \E t \in TaskIds : DeleteCourseNext(t)
SpecDeleteSeq == InitDelete /\ [][NextDelete]_vars
\* the same calls, and the signup of one account
NextDeleteUsers ==
    \/ \E tch \in Teachers : CreateCourse(tch)
    \/ MayCreate /\ \E c \in Listed : CreateLesson(c, 1)
    \/ MayCreate /\ \E c \in Listed : CreateQuiz(c)
    \/ MayCreate /\ \E c \in Listed : EnrollInCourse(1, c)
    \/ \E t \in TaskIds : EnrollInCourseWrite(t)
    \/ MayCreate /\ \E c \in Listed, tch \in Teachers : CreateAnnouncement(Some(c), tch)
    \/ MayCreate /\ \E tch \in Teachers : CreateAnnouncement(None, tch)
    \/ MayCreate /\ \E c \in Listed : CreateAssignment(c)
    \/ \E c \in Listed : DeleteCourse(c)
    \/ \E t \in TaskIds : DeleteCourseNext(t)
    \/ Signup("a@x", "pw1", "Ann", "student")
    \/ \E t \in TaskIds : SignupInsert(t)
    \/ \E t \in TaskIds : SignupDone(t)
SpecDeleteUsersSeq == InitDelete /\ [][NextDeleteUsers]_vars

\* the quiz screens' calls of the teacher and of one student, one call at a
\* time; hist keeps the last outcome
NextQuizDelete ==
    \/ MayInsert /\ CreateQuiz(1)
    \/ MayInsert /\ \E q \in QuizIds : AddQuestion(q, "A", 1)
    \/ MayInsert /\ \E q \in QuizIds :
          SubmitQuizAttempt([studentId |-> 1, quizId |-> q, score |-> Num(0),
                             totalQuestions |-> 1, correctAnswers |-> 0])
    \/ MayInsert /\ \E x \in QuestionIds : RecordAnswer(1, x, "A", TRUE)
    \/ \E q \in QuizIds : DeleteQuiz(q)
    \/ \E t \in TaskIds : DeleteQuizNext(t)
    \/ \E x \in QuestionIds : DeleteQuestion(x)
    \/ \E t \in TaskIds : DeleteQuestionNext(t)
SpecQuizDeleteSeq == InitDelete /\ [][NextQuizDelete]_vars

\* students sign up, enroll and work through lessons while the teacher adds
\* lessons and looks at the progress of a course, one call at a time
NextRoster ==
    \/ MayAddRow /\ \E e \in Emails : Signup(e, "pw1", "Ann", "student")
    \/ \E t \in TaskIds : SignupInsert(t)
    \/ \E t \in TaskIds : SignupDone(t)
    \/ MayAddRow /\ \E c \in CourseIds : CreateLesson(c, 1)
    \/ MayAddRow /\ \E s \in Students : EnrollInCourse(s, 1)
    \/ \E t \in TaskIds : EnrollInCourseWrite(t)
    \/ MayAddRow /\ \E s \in Students, l \in LessonIds : MarkLessonComplete(s, l)
    \/ \E t \in TaskIds : MarkLessonCompleteWrite(t)
    \/ \E s \in Students, l \in LessonIds : MarkLessonIncomplete(s, l)
    \/ \E c \in CourseIds : FetchCourseStudentProgress(c)
    \/ \E t \in TaskIds : FetchCourseStudentProgressDone(t)
SpecRosterSeq == InitDelete /\ [][NextRoster]_vars

\* teacher and student screens, one call at a time: every call names rows
\* that exist (a listed course, a lesson or quiz of the list shown, the attempt
\* just submitted)
NextOrphans ==
    \/ MayAddRow /\ CreateCourse(1)
    \/ MayAddRow /\ \E c \in Listed : CreateLesson(c, 1)
    \/ MayAddRow /\ \E l \in lessons : MarkLessonComplete(1, l.id)
    \/ \E t \in TaskIds : MarkLessonCompleteWrite(t)
    \/ MayAddRow /\ \E c \in Listed : CreateQuiz(c)
    \/ MayAddRow /\ \E q \in quizzes : AddQuestion(q.id, "A", 1)
    \/ MayAddRow /\ \E q \in quizzes :
          SubmitQuizAttempt([studentId |-> 1, quizId |-> q.id, score |-> Num(0),
                             totalQuestions |-> 1, correctAnswers |-> 0])
    \/ MayAddRow /\ \E a \in quiz_attempts, x \in quiz_questions :
          RecordAnswer(a.id, x.id, "A", TRUE)
    \/ \E l \in lessons : DeleteLesson(l.id)
    \/ \E t \in TaskIds : DeleteLessonNext(t)
    \/ \E q \in quizzes : DeleteQuiz(q.id)
    \/ \E t \in TaskIds : DeleteQuizNext(t)
    \/ \E c \in Listed : DeleteCourse(c)
    \/ \E t \in TaskIds : DeleteCourseNext(t)
SpecOrphansSeq == InitDelete /\ [][NextOrphans]_vars

\* the teacher screens, one call at a time, where any statement of the
\* database may fail
InitDeleteFaults == InitState /\ serial = TRUE /\ keep = 1 /\ faults = TRUE
NextDeleteFaults ==
    \/ MayInsert /\ \E tch \in Teachers : CreateCourse(tch)
    \/ MayInsert /\ \E c \in Listed : CreateLesson(c, 1)
    \/ MayInsert /\ \E c \in Listed : CreateQuiz(c)
    \/ MayInsert /\ \E c \in Listed : EnrollInCourse(1, c)
    \/ \E t \in TaskIds : EnrollInCourseWrite(t)
    \/ MayInsert /\ \E c \in Listed, tch \in Teachers : CreateAnnouncement(Some(c), tch)
    \/ MayInsert /\ \E c \in Listed : CreateAssignment(c)
    \/ \E c \in Listed : DeleteCourse(c)
    \/ \E t \in TaskIds : DeleteCourseNext(t)
SpecDeleteFaultsSeq == InitDeleteFaults /\ [][NextDeleteFaults]_vars

NextFetch ==
    \/ \E c \in CourseIds, q \in SequenceNumbers : CreateLesson(c, q)
    \/ \E c \in CourseIds : FetchLessons(c)
    \/ \E t \in TaskIds : FetchLessonsDone(t)
SpecFetchSeq == InitSeq /\ [][NextFetch]_vars

\* a student signs up, logs in and takes quizzes a teacher has written, one
\* call at a time
InitQuiz == InitState /\ serial = TRUE /\ keep = 1 /\ faults = FALSE
NextQuiz ==
    \/ Signup("a@x", "pw1", "Ann", "student")
    \/ \E t \in TaskIds : SignupInsert(t)
    \/ \E t \in TaskIds : SignupDone(t)
    \/ Login("a@x", "pw1", "student")
    \/ \E t \in TaskIds : LoginFound(t)
    \/ \E t \in TaskIds : LoginSaved(t)
    \/ \E t \in TaskIds : LoginRejected(t)
    \/ CreateQuiz(1)
    \/ \E q \in {r.id : r \in quizzes}, a \in Answers : AddQuestion(q, a, 1)
    \/ \E q \in QuizIds : LoadQuiz(q)
    \/ \E t \in TaskIds : LoadQuizFetch(t)
    \/ \E t \in TaskIds : LoadQuizDone(t)
    \/ \E q \in QuestionIds, a \in Answers : HandleAnswerChange(q, a)
    \/ HandleSubmitQuiz
    \/ \E t \in TaskIds : HandleSubmitQuizNext(t)
SpecQuizSeq == InitQuiz /\ [][NextQuiz]_vars


\* the stores' operations on one student, course and lesson, one call at a
\* time, where any statement of the database may fail
InitFaults == InitState /\ serial = TRUE /\ keep = 1 /\ faults = TRUE
NextFaults ==
    \/ MayInsert /\ CreateCourse(1)
    \/ MayInsert /\ \E q \in SequenceNumbers : CreateLesson(1, q)
    \/ \E c \in CourseIds : FetchLessons(c)
    \/ \E t \in TaskIds : FetchLessonsDone(t)
    \/ MayInsert /\ EnrollInCourse(1, 1)
    \/ \E t \in TaskIds : EnrollInCourseWrite(t)
    \/ UnenrollFromCourse(1, 1)
    \/ UpdateEnrollmentProgress(1, 50)
    \/ GetEnrollment(1, 1)
    \/ \E t \in TaskIds : GetEnrollmentDone(t)
    \/ FetchStudentEnrollments(1)
    \/ \E t \in TaskIds : FetchStudentEnrollmentsDone(t)
    \/ GetCourseProgress(1, 1)
    \/ \E t \in TaskIds : GetCourseProgressDone(t)
    \/ MayInsert /\ MarkLessonComplete(1, 1)
    \/ \E t \in TaskIds : MarkLessonCompleteWrite(t)
    \/ MarkLessonIncomplete(1, 1)
    \/ MayInsert /\ UpdateLessonTimeSpent(1, 1, 1)
    \/ \E t \in TaskIds : UpdateLessonTimeSpentWrite(t)
    \/ MayInsert /\ SubmitQuizAttempt([studentId |-> 1, quizId |-> 1, score |-> Num(0),
                                       totalQuestions |-> 1, correctAnswers |-> 0])
    \/ MayInsert /\ RecordAnswer(1, 1, "A", FALSE)
SpecFaultsSeq == InitFaults /\ [][NextFaults]_vars

(***************************************************************************)
(* Properties                                                              *)
(***************************************************************************)
Last == hist[Len(hist)]
\* the last two calls of a serial behaviour were op1 then op2, and nothing
\* has been called since
Sequence(op1, op2) ==
    /\ AllIdle /\ Len(hist) = 2
    /\ hist[1].op = op1 /\ hist[2].op = op2
JustDone(op) == AllIdle /\ Len(hist) >= 1 /\ Last.op = op

\* C1: a signup that succeeded (its email was not registered) followed by a
\* login with the same email, password and role succeeds, and leaves the
\* session holding a user with that email and the role given at signup, with
\* isLoggedIn true.
C1_SignupThenLogin ==
    (/\ Sequence("signup", "login")
     /\ hist[1].status = "ok"
     /\ hist[2].args.email = hist[1].args.email
     /\ hist[2].args.password = hist[1].args.password
     /\ hist[2].args.role = hist[1].args.role)
    => /\ hist[2].status = "ok"
       /\ IsSome(user)
       /\ Val(user).email = hist[1].args.email
       /\ Val(user).role = hist[1].args.role
       /\ isLoggedIn = TRUE

C1_Witness ==
    /\ Sequence("signup", "login")
    /\ hist[1].status = "ok"
    /\ hist[2].args.email = hist[1].args.email
    /\ hist[2].args.password = hist[1].args.password
    /\ hist[2].args.role = hist[1].args.role
    /\ hist[1].args.role = "teacher"
    /\ hist[2].status = "ok"
    /\ isLoggedIn

\* C2: a login for which a user with that email and password exists under
\* another role fails with the message naming that user's stored role; the
\* generic 'Invalid email or password' is raised only when no user matches
\* the email and password.
C2_RoleMismatchNamed ==
    JustDone("login") =>
        LET a == Last.args
            M == {u \in users : u.email = a.email /\ u.password = a.password}
        IN  /\ \A u \in M : u.role # a.role =>
                    /\ Last.status = "error"
                    /\ Last.msg = <<"This account is registered as a", u.role>>
            /\ Last.msg = <<"Invalid email or password">> => M = {}

C2_Witness ==
    /\ JustDone("login")
    /\ Last.status = "error"
    /\ Last.msg = <<"This account is registered as a", "teacher">>
    /\ Last.args.role = "student"
    /\ \E u \in users : /\ u.email = Last.args.email
                         /\ u.password = Last.args.password
                         /\ u.role = "teacher"

\* C3: no two user rows ever share an email, also when the check and the
\* insert of two signups for one email interleave; a signup for an email
\* that was registered when it was called fails with 'Email already
\* registered', and every signup that fails leaves the users table as it was.
NoDuplicateEmails == \A u, v \in users : u.email = v.email => u = v
SignupFailureStep(t) ==
    /\ tasks[t].op = "signup"
    /\ tasks'[t] = Idle
    /\ hist'[Len(hist')].status = "error"
C3_SignupNoDuplicate ==
    /\ []NoDuplicateEmails
    /\ [][\A t \in TaskIds :
            /\ SignupFailureStep(t) => users' = users
            /\ (tasks[t].op = "signup" /\ tasks[t].pre[1] /\ tasks'[t] = Idle)
                    => /\ SignupFailureStep(t)
                       /\ hist'[Len(hist')].msg = <<"Email already registered">>]_vars

\* two signups for one email both passed the check, and the second insert
\* was refused
C3_Witness ==
    /\ Len(hist) >= 1
    /\ Last.op = "signup"
    /\ Last.status = "error"
    /\ Last.msg = UniqueError
    /\ \E u \in users : u.email = Last.args.email

\* C4: enrollInCourse(s, c) called while an active enrollment for (s, c)
\* exists fails with 'Already enrolled in this course' and changes no row;
\* called right after unenrollFromCourse(s, c) it succeeds and leaves exactly
\* one enrollment for (s, c), active and with completionPercentage 0,
\* whatever the percentage was before the unenroll.
ActiveIn(rows, a) ==
    \E e \in rows : /\ e.studentId = a.studentId /\ e.courseId = a.courseId
                    /\ e.status = "active"
SamePair(a, b) == a.studentId = b.studentId /\ a.courseId = b.courseId
C4_EnrollTwiceAndReEnroll ==
    /\ (JustDone("enrollInCourse") /\ ActiveIn(Last.pre, Last.args)) =>
            /\ Last.status = "error"
            /\ Last.msg = <<"Already enrolled in this course">>
            /\ enrollments = Last.pre
    /\ (/\ Sequence("unenrollFromCourse", "enrollInCourse")
        /\ hist[1].status = "ok"
        /\ SamePair(hist[1].args, hist[2].args)) =>
            /\ hist[2].status = "ok"
            /\ \E e \in enrollments :
                /\ EnrollmentsOf(e.studentId, e.courseId) = {e}
                /\ SamePair(e, hist[2].args)
                /\ e.status = "active"
                /\ e.completionPercentage = 0

\* an enrollment at 50 percent was dropped and the student enrolled again
C4_Witness ==
    /\ Sequence("unenrollFromCourse", "enrollInCourse")
    /\ hist[1].status = "ok"
    /\ SamePair(hist[1].args, hist[2].args)
    /\ \E e \in hist[1].pre : SamePair(e, hist[1].args) /\ e.completionPercentage = 50
    /\ hist[2].status = "ok"
    /\ \E e \in enrollments : SamePair(e, hist[2].args) /\ e.completionPercentage = 0

\* a second enrollInCourse for an active pair was refused
C4_WitnessTwice ==
    /\ JustDone("enrollInCourse")
    /\ ActiveIn(Last.pre, Last.args)
    /\ Last.status = "error"

\* C5: markLessonComplete(s, l) followed by markLessonIncomplete(s, l) leaves
\* exactly one lesson_progress row for (s, l), with isCompleted 0 and
\* completedAt NULL, and with the timeSpent the pair had before the two calls
\* (0 when it had no row).
SameLesson(a, b) == a.studentId = b.studentId /\ a.lessonId = b.lessonId
C5_CompleteThenIncomplete ==
    (/\ Sequence("markLessonComplete", "markLessonIncomplete")
     /\ hist[1].status = "ok" /\ hist[2].status = "ok"
     /\ SameLesson(hist[1].args, hist[2].args)) =>
        \E r \in lesson_progress :
            /\ ProgressOf(hist[1].args.studentId, hist[1].args.lessonId) = {r}
            /\ r.isCompleted = 0
            /\ r.completedAt = None
            /\ \A b \in hist[1].pre : r.timeSpent = b.timeSpent
            /\ hist[1].pre = {} => r.timeSpent = 0

\* the pair had a row with time recorded before the two calls
C5_Witness ==
    /\ Sequence("markLessonComplete", "markLessonIncomplete")
    /\ hist[1].status = "ok" /\ hist[2].status = "ok"
    /\ SameLesson(hist[1].args, hist[2].args)
    /\ \E b \in hist[1].pre : b.timeSpent = 2
    /\ \E r \in lesson_progress :
            /\ SameLesson(r, hist[1].args)
            /\ r.isCompleted = 0 /\ r.timeSpent = 2

\* C6: when the calls run one at a time, in any order with markLessonComplete
\* and markLessonIncomplete, the stored timeSpent of (student, lesson) is the
\* sum of the increments passed to the updateLessonTimeSpent calls for the
\* pair, also when the first of them inserted the row.
C6_TimeSpentAccumulates ==
    \A s \in Students, l \in LessonIds :
        /\ ProgressOf(s, l) = {} => sumPassed[s, l] = 0
        /\ \A r \in ProgressOf(s, l) : r.timeSpent = sumPassed[s, l]

\* two updates in a row for a pair with no row: the first inserted, the second
\* added to it
C6_Witness ==
    /\ Sequence("updateLessonTimeSpent", "updateLessonTimeSpent")
    /\ hist[1].status = "ok" /\ hist[2].status = "ok"
    /\ SameLesson(hist[1].args, hist[2].args)
    /\ hist[1].pre = {}
    /\ hist[1].args.timeSpent = 1 /\ hist[2].args.timeSpent = 2
    /\ \E r \in lesson_progress : SameLesson(r, hist[1].args) /\ r.timeSpent = 3

\* C7: after deleteCourse(c) has returned successfully, no row of lessons,
\* quizzes, enrollments, announcements or assignments references course c,
\* and the course row itself is gone.
C7_DeleteCourseCascade ==
    (JustDone("deleteCourse") /\ Last.status = "ok") =>
        LET owned == RowsOfCourse(Last.args.courseId)
        IN  /\ owned.lessons = {}
            /\ owned.quizzes = {}
            /\ owned.enrollments = {}
            /\ owned.announcements = {}
            /\ owned.assignments = {}
            /\ owned.courses = {}

\* the only course ever created had a row in each of the five tables, and its
\* deletion succeeded
C7_Witness ==
    /\ JustDone("deleteCourse")
    /\ Last.status = "ok"
    /\ Last.args.courseId = 1
    /\ nextId.courses = 2
    /\ nextId.lessons = 2
    /\ nextId.quizzes = 2
    /\ nextId.enrollments = 2
    /\ nextId.assignments = 2
    /\ nextId.announcements = 2
    /\ announcements = {}
    /\ lessons = {} /\ quizzes = {} /\ enrollments = {} /\ assignments = {}
    /\ courses = {}

\* C8: after a quiz with at least one question has been submitted through the
\* quiz screen, the quiz_attempts row the submission stored has correctAnswers
\* equal to the number of questions whose submitted answer equals the
\* question's stored correctAnswer, and score equal to 100 * correctAnswers /
\* totalQuestions.
SubmittedCorrect(o) ==
    Cardinality({i \in 1 .. Len(o.pre.questions) :
                    \E q \in quiz_questions :
                        /\ q.id = o.pre.questions[i].id
                        /\ o.pre.answers[q.id] = q.correctAnswer})
StoredAttempt == CHOOSE r \in quiz_attempts : \A x \in quiz_attempts : x.id <= r.id
C8_StoredScore ==
    (/\ JustDone("handleSubmitQuiz")
     /\ Last.status = "ok"
     /\ Len(Last.pre.questions) > 0) =>
        /\ StoredAttempt.totalQuestions = Len(Last.pre.questions)
        /\ StoredAttempt.correctAnswers = SubmittedCorrect(Last)
        /\ SameNumber(StoredAttempt.score,
                      Percent(SubmittedCorrect(Last), StoredAttempt.totalQuestions))

\* a quiz of one question was answered correctly and submitted: the result
\* screen was handed a score of 100, the stored attempt has score 0
C8_Witness ==
    /\ JustDone("handleSubmitQuiz")
    /\ Last.status = "ok"
    /\ Len(Last.pre.questions) = 1
    /\ SubmittedCorrect(Last) = 1
    /\ IsSome(quizResult)
    /\ SameNumber(Val(quizResult).score, Num(100))
    /\ Val(quizResult).correctAnswers = 1
    /\ StoredAttempt.score = Num(0)
    /\ StoredAttempt.correctAnswers = 0

\* C9: after a fetchLessons(c) that succeeded, the lessons cache holds exactly
\* the lessons of course c, each once, in non-decreasing sequenceNumber.
C9_FetchLessonsOrdered ==
    (JustDone("fetchLessons") /\ Last.status = "ok") =>
        /\ {lessonsCache[i] : i \in 1 .. Len(lessonsCache)}
                = {r \in lessons : r.courseId = Last.args.courseId}
        /\ \A i, j \in 1 .. Len(lessonsCache) :
                i < j => /\ lessonsCache[i] # lessonsCache[j]
                         /\ lessonsCache[i].sequenceNumber
                                <= lessonsCache[j].sequenceNumber

\* lessons created with sequence numbers 2 then 1 come back 1 then 2
C9_Witness ==
    /\ JustDone("fetchLessons") /\ Last.status = "ok"
    /\ Len(lessonsCache) = 2
    /\ lessonsCache[1].id = 2 /\ lessonsCache[1].sequenceNumber = 1
    /\ lessonsCache[2].id = 1 /\ lessonsCache[2].sequenceNumber = 2

\* C10: in every reachable state, also when enrollInCourse calls interleave
\* between their SELECT and their INSERT, there is at most one enrollment row
\* per (studentId, courseId).
C10_OneEnrollmentPerPair ==
    \A e, f \in enrollments :
        (e.studentId = f.studentId /\ e.courseId = f.courseId) => e = f

\* two calls for one pair both found no row; the second INSERT was refused
C10_Witness ==
    /\ Len(hist) >= 1
    /\ Last.op = "enrollInCourse"
    /\ Last.status = "error"
    /\ Last.msg = UniqueError
    /\ \E e \in enrollments : SamePair(e, Last.args)

\* C11: after a logout() that completed, the session has user null and
\* isLoggedIn false and the 'currentUser' entry is absent; a getCurrentUser
\* that follows returns null and leaves the session inactive.
C11_LogoutClearsSession ==
    /\ (JustDone("logout") /\ Last.status = "ok") =>
            /\ user = None
            /\ isLoggedIn = FALSE
            /\ currentUser = None
    /\ (Sequence("logout", "getCurrentUser") /\ hist[1].status = "ok") =>
            /\ hist[2].msg = None
            /\ user = None
            /\ isLoggedIn = FALSE

\* a logged-in user logged out, and the session was then asked for
C11_Witness ==
    /\ Sequence("logout", "getCurrentUser")
    /\ hist[1].status = "ok"
    /\ hist[1].pre = <<TRUE>>
    /\ hist[2].msg = None
    /\ isLoggedIn = FALSE

\* C12: updateProfile(name, bio) with no session fails with 'No user logged
\* in' and writes neither the users table nor the 'currentUser' entry; with a
\* session (and storage that does not fail) it succeeds, and the users row of
\* the session's user, the session user and the 'currentUser' entry all hold
\* the new name and bio.
HoldsProfile(u, a) == u.name = a.name /\ u.bio = Some(a.bio)
C12_UpdateProfile ==
    JustDone("updateProfile") =>
        IF Last.pre.user = None
        THEN /\ Last.status = "error"
             /\ Last.msg = <<"No user logged in">>
             /\ users = Last.pre.users
             /\ currentUser = Last.pre.currentUser
        ELSE /\ Last.status = "ok"
             /\ \E u \in users : u.id = Val(Last.pre.user).id /\ HoldsProfile(u, Last.args)
             /\ IsSome(user) /\ HoldsProfile(Val(user), Last.args)
             /\ IsSome(currentUser)
             /\ HoldsProfile(JSONparse(Val(currentUser)), Last.args)
             /\ JSONparse(Val(currentUser)) = Val(user)
             /\ Val(user) \in users

\* Ann renamed herself Bob
C12_Witness ==
    /\ JustDone("updateProfile")
    /\ Last.status = "ok"
    /\ Last.args.name = "Bob"
    /\ IsSome(Last.pre.user) /\ Val(Last.pre.user).name = "Ann"
    /\ \E u \in users : u.name = "Bob" /\ u.bio = Some("hi")
    /\ Val(user).name = "Bob"

\* updateProfile was called with nobody logged in, an account existing
C12_WitnessNoSession ==
    /\ JustDone("updateProfile")
    /\ Last.pre.user = None
    /\ Last.status = "error"
    /\ users # {}

\* C13: when a statement of the database fails, a write operation re-raises
\* the failure to its caller, and a read operation swallows it and yields the
\* safe default: null, 0, or an empty collection.
WriteOps == {"createCourse", "createLesson", "enrollInCourse", "unenrollFromCourse",
             "updateEnrollmentProgress", "markLessonComplete", "markLessonIncomplete",
             "updateLessonTimeSpent", "submitQuizAttempt", "recordAnswer"}
ReadOps == {"fetchLessons", "getEnrollment", "fetchStudentEnrollments",
            "getCourseProgress"}
Settled == AllIdle /\ Len(hist) >= 1
C13_SafeDefault ==
    (Settled /\ Last.status = "swallowed") =>
        /\ Last.op = "getEnrollment" => Last.msg = None
        /\ Last.op = "getCourseProgress" => Last.msg = <<0>>
        /\ Last.op = "fetchStudentEnrollments" => enrollmentsCache = <<>>
        /\ Last.op = "fetchLessons" => lessonsCache = <<>>
C13_ErrorHandling ==
    /\ Settled => /\ Last.op \in WriteOps => Last.status \in {"ok", "error"}
                  /\ Last.op \in ReadOps => Last.status \in {"ok", "swallowed"}
    /\ C13_SafeDefault

\* the part of C13 that holds: writes re-raise, reads never raise, and the
\* reads that return a value return null or 0 on a failure
C13_RaisedOrSwallowed ==
    Settled =>
        /\ Last.op \in WriteOps => Last.status \in {"ok", "error"}
        /\ Last.op \in ReadOps => Last.status \in {"ok", "swallowed"}
        /\ (Last.status = "swallowed" /\ Last.op = "getEnrollment") => Last.msg = None
        /\ (Last.status = "swallowed" /\ Last.op = "getCourseProgress") => Last.msg = <<0>>

\* fetchLessons(2) failed after the lessons of course 1 had been fetched: the
\* cache still holds the lessons of course 1
C13_Witness ==
    /\ Settled
    /\ Last.op = "fetchLessons" /\ Last.args.courseId = 2
    /\ Last.status = "swallowed"
    /\ Len(lessonsCache) > 0
    /\ \A i \in 1 .. Len(lessonsCache) : lessonsCache[i].courseId = 1

(***************************************************************************)
(* C14: a failure of any statement inside migrateDatabase never makes      *)
(* initializeDatabase fail: an initializeDatabase call raises exactly when *)
(* one of its own create-table statements failed, and then no statement of *)
(* the migration was run; a call during which statements of the migration  *)
(* failed returns normally.                                                *)
(***************************************************************************)
OwnStatements == {<<"initialize", CreateOrder[k]>> : k \in 1..Len(CreateOrder)}
C14_MigrationNeverFailsInitialize ==
    (Settled /\ Last.op = "initializeDatabase") =>
        /\ Last.status \in {"ok", "error"}
        /\ Last.status = "error" =>
              failedIn # {} /\ failedIn \subseteq OwnStatements
        /\ Last.status = "ok" => failedIn \cap OwnStatements = {}
\* a call in which DROP TABLE announcements failed has returned normally (the
\* copy of the table stays behind)
C14_Witness ==
    /\ Settled /\ Last.op = "initializeDatabase" /\ Last.status = "ok"
    /\ <<"migrate", "DROP announcements">> \in failedIn
    /\ IsSome(schema.announcements_new)

(***************************************************************************)
(* C15: markLessonIncomplete(s, l) called when no lesson_progress row      *)
(* exists for (s, l) inserts one, with isCompleted false and completedAt   *)
(* null, as markLessonComplete does for a missing row: after either call   *)
(* exactly one row exists for the pair.                                    *)
(***************************************************************************)
MarkedMissingRow(op) ==
    /\ JustDone(op) /\ Last.status = "ok" /\ Last.pre = {}
C15_CompleteInsertsMissingRow ==
    MarkedMissingRow("markLessonComplete") =>
        \E r \in lesson_progress :
            /\ ProgressOf(Last.args.studentId, Last.args.lessonId) = {r}
            /\ r.isCompleted = 1
C15_IncompleteInsertsMissingRow ==
    /\ C15_CompleteInsertsMissingRow
    /\ MarkedMissingRow("markLessonIncomplete") =>
        \E r \in lesson_progress :
            /\ ProgressOf(Last.args.studentId, Last.args.lessonId) = {r}
            /\ r.isCompleted = 0 /\ r.completedAt = None
\* markLessonIncomplete has returned normally for a pair that had no row, and
\* the pair still has none
C15_Witness ==
    /\ MarkedMissingRow("markLessonIncomplete")
    /\ ProgressOf(Last.args.studentId, Last.args.lessonId) = {}

(***************************************************************************)
(* C16: when deleteCourse(c) fails at one of its six delete statements,    *)
(* the statements after it are not run, the error reaches the caller, and  *)
(* the rows removed by the earlier statements stay removed: the step in    *)
(* which the call ends with an error changes no table, the tables of the   *)
(* statements already run hold no row of c, and the course row is present  *)
(* (calls run one at a time, on a course that is listed).                  *)
(***************************************************************************)
\* the rows of course c that statement k deletes
RowsOfStatement(k, c) ==
    CASE k = 1 -> RowsOfCourse(c).lessons
      [] k = 2 -> RowsOfCourse(c).quizzes
      [] k = 3 -> RowsOfCourse(c).enrollments
      [] k = 4 -> RowsOfCourse(c).announcements
      [] k = 5 -> RowsOfCourse(c).assignments
      [] k = 6 -> RowsOfCourse(c).courses
\* while deleteCourse(c) is between two statements
C16_Between ==
    \A t \in TaskIds : tasks[t].op = "deleteCourse" =>
        /\ tasks[t].pc \in 1 .. DeleteCourseStatements - 1
        /\ \A k \in 1 .. tasks[t].pc : RowsOfStatement(k, tasks[t].args.courseId) = {}
        /\ RowsOfCourse(tasks[t].args.courseId).courses # {}
\* the step in which deleteCourse returns or raises
C16_LastStep ==
    /\ \A t \in TaskIds : (tasks[t].op = "deleteCourse" /\ tasks'[t] = Idle) =>
        /\ hist'[Len(hist')].op = "deleteCourse"
        /\ \/ /\ hist'[Len(hist')].status = "error"
              /\ hist'[Len(hist')].msg = DbError
              /\ UNCHANGED courseTables
           \/ /\ hist'[Len(hist')].status = "ok"
              /\ tasks[t].pc = DeleteCourseStatements - 1
    /\ (/\ AllIdle /\ tasks' = tasks /\ Len(hist') >= 1
        /\ hist'[Len(hist')].op = "deleteCourse") =>
            /\ hist'[Len(hist')].status = "error"
            /\ UNCHANGED courseTables
\* after the call has raised, the course is still listed
C16_CourseRowStays ==
    (JustDone("deleteCourse") /\ Last.status = "error") =>
        RowsOfCourse(Last.args.courseId).courses # {}
C16_PartialDelete ==
    [](C16_Between /\ C16_CourseRowStays) /\ [][C16_LastStep]_vars
\* deleteCourse(1) has raised at its second statement: the only lesson ever
\* created is gone, the quiz of the course and the course row are still there
C16_Witness ==
    /\ JustDone("deleteCourse") /\ Last.status = "error" /\ Last.args.courseId = 1
    /\ nextId.courses = 2 /\ RowsOfCourse(1).courses # {}
    /\ nextId.lessons = 2 /\ lessons = {}
    /\ RowsOfCourse(1).quizzes # {}

(***************************************************************************)
(* C17: starting from an empty enrollments table, after any sequence of    *)
(* enrollInCourse, unenrollFromCourse and updateEnrollmentProgress calls   *)
(* (updates to 100 included, calls interleaved or not) every enrollment    *)
(* row has status 'active'.                                                *)
(***************************************************************************)
C17_AlwaysActive == \A e \in enrollments : e.status = "active"
\* an update to 100 has just returned and the row it wrote is still active
C17_Witness ==
    /\ Len(hist) >= 1 /\ Last.op = "updateEnrollmentProgress" /\ Last.status = "ok"
    /\ Last.args.completionPercentage = 100
    /\ \E e \in enrollments :
        /\ e.id = Last.args.enrollmentId
        /\ e.completionPercentage = 100 /\ e.status = "active"

(***************************************************************************)
(* C18: getCourseProgress(s, c) returns exactly the completionPercentage   *)
(* stored in the enrollment of (s, c), or 0 when there is none;            *)
(* markLessonComplete, markLessonIncomplete and updateLessonTimeSpent      *)
(* leave every enrollment row unchanged; the value getCourseProgress       *)
(* would return changes only in a step of updateEnrollmentProgress,        *)
(* enrollInCourse, unenrollFromCourse or deleteCourse (calls run one at a  *)
(* time).                                                                  *)
(***************************************************************************)
\* what getCourseProgress(s, c) would return now (a set: one value, by UNIQUE)
Returned(s, c) == {ProgressOrZero(x) : x \in FirstOf(EnrollmentsOf(s, c))}
LessonOps == {"markLessonComplete", "markLessonIncomplete", "updateLessonTimeSpent"}
\* this step belongs to a call of one of ops
StepOf(ops) ==
    \/ \E t \in TaskIds : tasks[t].op \in ops \/ tasks'[t].op \in ops
    \/ AllIdle /\ tasks' = tasks /\ Len(hist') >= 1 /\ hist'[Len(hist')].op \in ops
C18_ReturnsStored ==
    (JustDone("getCourseProgress") /\ Last.status = "ok") =>
        LET rows == EnrollmentsOf(Last.args.studentId, Last.args.courseId)
        IN  /\ Len(Last.msg) = 1
            /\ rows = {} => Last.msg[1] = 0
            /\ \A e \in rows : Last.msg[1] = e.completionPercentage
C18_LessonFrame == StepOf(LessonOps) => UNCHANGED enrollments
C18_ChangesOnlyThrough(ops) ==
    \A s \in Students, c \in CourseIds :
        Returned(s, c)' # Returned(s, c) => StepOf(ops)
C18_AsStated ==
    /\ []C18_ReturnsStored
    /\ [][C18_LessonFrame]_vars
    /\ [][C18_ChangesOnlyThrough({"updateEnrollmentProgress", "enrollInCourse"})]_vars
C18_StoredProgress ==
    /\ []C18_ReturnsStored
    /\ [][C18_LessonFrame]_vars
    /\ [][C18_ChangesOnlyThrough({"updateEnrollmentProgress", "enrollInCourse",
                                  "unenrollFromCourse", "deleteCourse"})]_vars
\* getCourseProgress has returned the 50 stored in the enrollment while the
\* student has a completed lesson
C18_Witness ==
    /\ JustDone("getCourseProgress") /\ Last.status = "ok" /\ Last.msg = <<50>>
    /\ \E e \in EnrollmentsOf(Last.args.studentId, Last.args.courseId) :
            e.completionPercentage = 50
    /\ \E r \in lesson_progress : r.studentId = Last.args.studentId /\ r.isCompleted = 1

(***************************************************************************)
(* C19: in every reachable state each enrollment row's completionPercentage*)
(* lies between 0 and 100 inclusive.                                       *)
(***************************************************************************)
C19_PercentageInRange ==
    \A e \in enrollments : 0 <= e.completionPercentage /\ e.completionPercentage <= 100
\* updateEnrollmentProgress(id, 150) has returned normally and the row holds 150
C19_Witness ==
    /\ JustDone("updateEnrollmentProgress") /\ Last.status = "ok"
    /\ Last.args.completionPercentage = 150
    /\ \E e \in enrollments : e.id = Last.args.enrollmentId /\ e.completionPercentage = 150
\* what does hold: a row's percentage is 0 or a value passed to updateEnrollmentProgress
C19_PercentageAsPassed ==
    \A e \in enrollments : e.completionPercentage \in ProgressInputs \cup {0}

(***************************************************************************)
(* C20: deleteQuiz(q) removes, in this order, the questions of q, the      *)
(* attempts of q, then the quiz row; deleteQuestion(x) removes the answers *)
(* referencing x, then the question row; after either has returned, no row *)
(* of the tables it touches references the deleted quiz or question (calls *)
(* run one at a time).                                                     *)
(***************************************************************************)
\* between two statements of deleteQuiz / deleteQuestion
C20_Between ==
    \A t \in TaskIds :
        /\ tasks[t].op = "deleteQuiz" =>
            /\ tasks[t].pc \in 1 .. DeleteQuizStatements - 1
            /\ RowsOfQuiz(tasks[t].args.quizId).quiz_questions = {}
            /\ tasks[t].pc = 2 => RowsOfQuiz(tasks[t].args.quizId).quiz_attempts = {}
            /\ RowsOfQuiz(tasks[t].args.quizId).quizzes = tasks[t].pre.quizzes
        /\ tasks[t].op = "deleteQuestion" =>
            /\ RowsOfQuestion(tasks[t].args.questionId).quiz_answers = {}
            /\ RowsOfQuestion(tasks[t].args.questionId).quiz_questions
                    = tasks[t].pre.quiz_questions
\* after the call has returned
C20_NothingLeft ==
    /\ (JustDone("deleteQuiz") /\ Last.status = "ok") =>
            /\ \A r \in quiz_questions : r.quizId # Last.args.quizId
            /\ \A r \in quiz_attempts : r.quizId # Last.args.quizId
            /\ \A r \in quizzes : r.id # Last.args.quizId
    /\ (JustDone("deleteQuestion") /\ Last.status = "ok") =>
            /\ \A r \in quiz_answers : r.questionId # Last.args.questionId
            /\ \A r \in quiz_questions : r.id # Last.args.questionId
\* a step of deleteQuiz that removes attempts finds the questions gone, one
\* that removes the quiz row finds questions and attempts gone; a step of
\* deleteQuestion that removes the question row finds its answers gone
C20_Order ==
    \A t \in TaskIds :
        /\ tasks[t].op = "deleteQuiz" =>
            LET before == RowsOfQuiz(tasks[t].args.quizId) IN
            /\ UNCHANGED quiz_questions
            /\ quiz_attempts' # quiz_attempts => before.quiz_questions = {}
            /\ quizzes' # quizzes =>
                    /\ before.quiz_questions = {} /\ before.quiz_attempts = {}
                    /\ UNCHANGED quiz_attempts
        /\ tasks[t].op = "deleteQuestion" =>
            /\ UNCHANGED quiz_answers
            /\ quiz_questions' # quiz_questions =>
                    RowsOfQuestion(tasks[t].args.questionId).quiz_answers = {}
C20_DeleteCascades == [](C20_Between /\ C20_NothingLeft) /\ [][C20_Order]_vars
\* deleteQuiz(q) has returned for a quiz that had a question and an attempt
C20_Witness ==
    /\ JustDone("deleteQuiz") /\ Last.status = "ok"
    /\ Last.pre.quiz_questions # {} /\ Last.pre.quiz_attempts # {} /\ Last.pre.quizzes # {}
    /\ RowsOfQuiz(Last.args.quizId) =
            [quiz_questions |-> {}, quiz_attempts |-> {}, quizzes |-> {}]
\* deleteQuestion(x) has returned for a question that had an answer
C20_WitnessQuestion ==
    /\ JustDone("deleteQuestion") /\ Last.status = "ok"
    /\ Last.pre.quiz_answers # {} /\ Last.pre.quiz_questions # {}
    /\ RowsOfQuestion(Last.args.questionId) = [quiz_answers |-> {}, quiz_questions |-> {}]

(***************************************************************************)
(* C21: fetchCourseStudentProgress(c) returns exactly one row per student  *)
(* (user) with an active enrollment in c, with totalLessons the number of  *)
(* lessons of c and completedLessons the number of those lessons the       *)
(* student has a completed progress row for; a student with no progress    *)
(* rows, or a course with no lessons, still gets a row, with both counts 0.*)
(***************************************************************************)
LessonsOfCourse(c) == {l \in lessons : l.courseId = c}
CompletedBy(s, c) ==
    {l \in LessonsOfCourse(c) :
        \E p \in lesson_progress :
            p.studentId = s /\ p.lessonId = l.id /\ p.isCompleted = 1}
StudentsEnrolledIn(c) ==
    {u \in users : \E e \in enrollments :
        e.studentId = u.id /\ e.courseId = c /\ e.status = "active"}
C21_OneRowPerStudent ==
    (JustDone("fetchCourseStudentProgress") /\ Last.status = "ok") =>
        LET c == Last.args.courseId
            result == Last.msg
        IN  /\ \A u \in StudentsEnrolledIn(c) :
                 Cardinality({i \in 1 .. Len(result) : result[i].studentId = u.id}) = 1
            /\ \A i \in 1 .. Len(result) :
                 /\ \E u \in StudentsEnrolledIn(c) : u.id = result[i].studentId
                 /\ result[i].totalLessons = Cardinality(LessonsOfCourse(c))
                 /\ result[i].completedLessons =
                        Cardinality(CompletedBy(result[i].studentId, c))
\* the row of a student who completed the only lesson of the course, while
\* another course has a lesson too
C21_Witness ==
    /\ JustDone("fetchCourseStudentProgress") /\ Last.status = "ok"
    /\ Len(Last.msg) = 1
    /\ Last.msg[1].totalLessons = 1 /\ Last.msg[1].completedLessons = 1
    /\ \E l \in lessons : l.courseId # Last.args.courseId
\* the rows of two students of a course without lessons
C21_WitnessNoLessons ==
    /\ JustDone("fetchCourseStudentProgress") /\ Last.status = "ok"
    /\ Len(Last.msg) = 2
    /\ \A i \in 1 .. 2 : Last.msg[i].totalLessons = 0 /\ Last.msg[i].completedLessons = 0

(***************************************************************************)
(* C22: when migrateDatabase finds the announcements courseId column       *)
(* non-nullable and every statement of the rebuild succeeds, the resulting *)
(* announcements table has a nullable courseId and an attachments column   *)
(* and holds the same rows as before with the copied columns (id,          *)
(* courseId, teacherId, ...) unchanged; running the migration again then   *)
(* changes nothing.                                                        *)
(***************************************************************************)
RebuildStatements ==
    {<<"migrate", s>> : s \in {"PRAGMA", "CREATE announcements_new", "INSERT SELECT",
                               "DROP announcements", "RENAME"}}
\* the columns of a row that the migration copies
Kept(r) == [id |-> r.id, courseId |-> r.courseId, teacherId |-> r.teacherId]
\* an initializeDatabase call that found courseId NOT NULL has returned and no
\* statement of the rebuild failed
Rebuilt ==
    /\ JustDone("initializeDatabase") /\ Last.status = "ok"
    /\ IsSome(Last.pre.schema.announcements)
    /\ Val(Last.pre.schema.announcements).courseIdNotNull
    /\ failedIn \cap RebuildStatements = {}
C22_RowsKept ==
    Rebuilt =>
        /\ schema = CurrentSchema
        /\ {Kept(r) : r \in announcements} = {Kept(r) : r \in Last.pre.announcements}
        /\ Cardinality(announcements) = Cardinality(Last.pre.announcements)
\* a step of an initializeDatabase call that started on the current schema
C22_SecondRun ==
    (\/ \E t \in TaskIds : /\ tasks[t].op = "initializeDatabase"
                           /\ tasks[t].pre.schema = CurrentSchema
     \/ /\ AllIdle /\ schema = CurrentSchema
        /\ \E t \in TaskIds : tasks'[t].op = "initializeDatabase")
    => UNCHANGED <<schema, announcements, nextId>>
C22_MigrationKeepsRows == []C22_RowsKept /\ [][C22_SecondRun]_vars
\* every statement succeeded on a table with NOT NULL courseId that held a row
\* with an attachment: the row is there, its attachment is not
C22_Witness ==
    /\ Rebuilt /\ failedIn = {}
    /\ \E r \in Last.pre.announcements : r.attachments # None
    /\ \E r \in announcements : r.id = 1 /\ r.courseId = Some(1) /\ r.attachments = None

(***************************************************************************)
(* C23: in every reachable state (no call in flight) each lesson_progress  *)
(* row references an existing lesson, each quiz_questions and              *)
(* quiz_attempts row references an existing quiz, and each quiz_answers    *)
(* row references an existing attempt and question; in particular          *)
(* deleteCourse and deleteQuiz leave no such orphan rows behind.           *)
(***************************************************************************)
ProgressHasLesson == \A p \in lesson_progress : \E l \in lessons : l.id = p.lessonId
QuestionsHaveQuiz == \A x \in quiz_questions : \E q \in quizzes : q.id = x.quizId
AttemptsHaveQuiz == \A a \in quiz_attempts : \E q \in quizzes : q.id = a.quizId
AnswersHaveAttemptAndQuestion ==
    \A r \in quiz_answers :
        /\ \E a \in quiz_attempts : a.id = r.attemptId
        /\ \E x \in quiz_questions : x.id = r.questionId
C23_NoOrphans ==
    AllIdle => /\ ProgressHasLesson /\ QuestionsHaveQuiz /\ AttemptsHaveQuiz
               /\ AnswersHaveAttemptAndQuestion
\* deleteCourse has returned and the progress row of a lesson it deleted is
\* still there
C23_Witness ==
    /\ JustDone("deleteCourse") /\ Last.status = "ok"
    /\ lessons = {} /\ lesson_progress # {}
\* deleteQuiz has returned and an answer to a question it deleted is still there
C23_WitnessQuiz ==
    /\ JustDone("deleteQuiz") /\ Last.status = "ok"
    /\ quiz_questions = {} /\ quiz_attempts = {} /\ quiz_answers # {}
\* what holds: deleteLesson (the progress rows, then the lesson) and the part
\* of deleteQuiz on questions and attempts leave no orphan of their own
C23_DeleteLessonAndQuizClean ==
    /\ (JustDone("deleteLesson") /\ Last.status = "ok") =>
            \A p \in lesson_progress : p.lessonId # Last.args.lessonId
    /\ (JustDone("deleteQuiz") /\ Last.status = "ok") =>
            /\ \A x \in quiz_questions : x.quizId # Last.args.quizId
            /\ \A a \in quiz_attempts : a.quizId # Last.args.quizId

(***************************************************************************)
(* C24: when two updateLessonTimeSpent calls for the same (student,        *)
(* lesson) interleave at their await points (both read the row before      *)
(* either writes), the stored timeSpent after both complete equals the     *)
(* previous value plus both increments: with no call in flight, a row's    *)
(* timeSpent is the sum of the increments of the calls that returned       *)
(* normally.                                                               *)
(***************************************************************************)
C24_NoLostIncrement ==
    AllIdle => \A r \in lesson_progress : r.timeSpent = sumPassed[r.studentId, r.lessonId]
\* both calls have returned normally and the row holds less than the sum of
\* their increments
C24_Witness ==
    /\ AllIdle /\ Len(hist) >= 1
    /\ Last.op = "updateLessonTimeSpent" /\ Last.status = "ok"
    /\ \E r \in lesson_progress :
        /\ r.studentId = Last.args.studentId /\ r.lessonId = Last.args.lessonId
        /\ r.timeSpent < sumPassed[r.studentId, r.lessonId]

(***************************************************************************)
(* C25: under any interleaving of login, logout, getCurrentUser and        *)
(* updateProfile, isLoggedIn is true exactly when user is not null.        *)
(***************************************************************************)
C25_LoggedInIffUser == isLoggedIn <=> IsSome(user)

\* an updateProfile that began with a session has put its updatedUser into
\* the store after a logout cleared it: a user, and isLoggedIn false
C25_Witness ==
    /\ ~isLoggedIn /\ IsSome(user)
    /\ \E t \in TaskIds :
        /\ tasks[t].op = "updateProfile" /\ tasks[t].pc = 2
        /\ user = Some(UpdatedUser(tasks[t].loc.stateUser, tasks[t].args.name,
                                   tasks[t].args.bio))

(***************************************************************************)
(* C26: once logout() has completed and no login has been issued after     *)
(* it, the 'currentUser' entry stays absent: no step of a call that was in *)
(* flight when logout ran writes it back.                                  *)
(***************************************************************************)
\* the last call to complete is a logout that removed the entry, and no
\* login is running: no login has been issued since that logout
LoggedOutNoLogin ==
    /\ Len(hist) >= 1 /\ Last.op = "logout" /\ Last.status = "ok"
    /\ InFlight("login") = 0

C26_EntryStaysAbsent ==
    [][(LoggedOutNoLogin /\ currentUser = None) => currentUser' = None]_vars

\* after the logout, the updateProfile that was awaiting its UPDATE has
\* written the entry
C26_Witness ==
    /\ LoggedOutNoLogin
    /\ \E t \in TaskIds :
        /\ tasks[t].op = "updateProfile" /\ tasks[t].pc = 2
        /\ currentUser = Some(JSONstringify(UpdatedUser(tasks[t].loc.stateUser,
                                    tasks[t].args.name, tasks[t].args.bio)))

(***************************************************************************)
(* C27: a login that raises (wrong credentials, wrong role, a failure of   *)
(* the database or of the key-value write) leaves user, isLoggedIn and the *)
(* 'currentUser' entry as they were before the call, and isLoading false.  *)
(***************************************************************************)
LoginRaised == JustDone("login") /\ Last.status = "error"
SessionAsBefore ==
    /\ user = Last.pre.user
    /\ isLoggedIn = Last.pre.isLoggedIn
    /\ currentUser = Last.pre.currentUser

C27_FailedLoginChangesNothing == LoginRaised => (SessionAsBefore /\ ~isLoading)

\* a login that matched a row, set the session and then failed to write the
\* entry: it raised, and the store holds the user
C27_Witness ==
    /\ LoginRaised
    /\ ~Last.pre.isLoggedIn /\ isLoggedIn
    /\ IsSome(user) /\ Val(user).email = Last.args.email
    /\ currentUser = Last.pre.currentUser

\* what holds: a login rejected for its credentials or its role changes
\* nothing, and every login that raises ends with isLoading false
C27_RejectedLoginChangesNothing ==
    LoginRaised =>
        /\ ~isLoading
        /\ Last.msg # DbError => SessionAsBefore
C27_WitnessRejected ==
    /\ LoginRaised /\ Last.pre.isLoggedIn
    /\ Last.msg = RoleMismatch(Val(user).role)

(***************************************************************************)
(* C28: deleteCourse(c) changes no row of another course and no            *)
(* school-wide announcement (courseId null): the lessons, quizzes,         *)
(* enrollments, assignments and announcements with another courseId, the   *)
(* other courses and all users are the same after every statement of the   *)
(* call.                                                                   *)
(***************************************************************************)
\* the rows that do not belong to course c
RowsOutside(c) ==
    [lessons |-> {r \in lessons : r.courseId # c},
     quizzes |-> {r \in quizzes : r.courseId # c},
     enrollments |-> {r \in enrollments : r.courseId # c},
     assignments |-> {r \in assignments : r.courseId # c},
     announcements |-> {r \in announcements : r.courseId # Some(c)},
     courses |-> {r \in courses : r.id # c},
     users |-> users]
\* this step is a statement of deleteCourse(c)
DeleteCourseStep(c) ==
    \/ \E t \in TaskIds : tasks[t].op = "deleteCourse" /\ tasks[t].args.courseId = c
    \/ \E t \in TaskIds : tasks'[t].op = "deleteCourse" /\ tasks'[t].args.courseId = c

C28_OtherRowsUntouched ==
    [][\A c \in CourseIds : DeleteCourseStep(c) => RowsOutside(c)' = RowsOutside(c)]_vars

\* course 1 has been deleted with its lesson, and the lesson of course 2, the
\* announcement of course 2, the school-wide announcement and the account are
\* still there
C28_Witness ==
    /\ JustDone("deleteCourse") /\ Last.status = "ok" /\ Last.args.courseId = 1
    /\ nextId.lessons = 3 /\ Cardinality(lessons) = 1
    /\ \E r \in lessons : r.courseId = 2
    /\ \E r \in announcements : r.courseId = None
    /\ \E r \in announcements : r.courseId = Some(2)
    /\ \E r \in courses : r.id = 2
    /\ users # {}

(***************************************************************************)
(* C29: if migrateDatabase fails part-way through the rebuild (after       *)
(* creating announcements_new, or after dropping announcements and before  *)
(* the rename), a later initializeDatabase still ends with an              *)
(* announcements table whose courseId is nullable and which holds all the  *)
(* rows the table had before the first attempt.                            *)
(***************************************************************************)
\* two consecutive initializeDatabase calls: the first found courseId NOT
\* NULL and no announcements_new, and left announcements_new behind; the
\* second has returned
RetriedAfterPartialRebuild ==
    /\ Sequence("initializeDatabase", "initializeDatabase")
    /\ IsSome(hist[1].pre.schema.announcements)
    /\ Val(hist[1].pre.schema.announcements).courseIdNotNull
    /\ hist[1].pre.schema.announcements_new = None
    /\ hist[2].pre.schema.announcements_new # None
    /\ hist[2].status = "ok"
\* the first attempt stopped after DROP TABLE announcements
StoppedAfterDrop == hist[2].pre.schema.announcements = None
\* the table is there with a nullable courseId and the rows of before
MigratedWith(rows) ==
    /\ IsSome(schema.announcements)
    /\ ~Val(schema.announcements).courseIdNotNull
    /\ {Kept(r) : r \in announcements} = {Kept(r) : r \in rows}

\* the statement, for a second call none of whose statements failed
C29_RetryCompletesMigration ==
    (RetriedAfterPartialRebuild /\ failedIn = {})
        => MigratedWith(hist[1].pre.announcements)

\* the first attempt dropped the table and failed to rename; every statement
\* of the second call succeeded; the table is empty and the row is in
\* announcements_new
C29_Witness ==
    /\ RetriedAfterPartialRebuild /\ StoppedAfterDrop /\ failedIn = {}
    /\ hist[1].pre.announcements # {}
    /\ announcements = {}
    /\ schema.announcements_new = Some({CopyRow(r) : r \in hist[1].pre.announcements})

\* the other case: the first attempt stopped after CREATE TABLE
\* announcements_new and before the DROP. The second call's CREATE TABLE
\* announcements_new then fails on the existing table, and courseId is still
\* NOT NULL when it returns
C29_StuckAfterCreate ==
    (RetriedAfterPartialRebuild /\ ~StoppedAfterDrop)
        => /\ IsSome(schema.announcements)
           /\ Val(schema.announcements).courseIdNotNull
           /\ announcements = hist[1].pre.announcements
C29_WitnessStuck ==
    /\ RetriedAfterPartialRebuild /\ ~StoppedAfterDrop
    /\ failedIn = {<<"migrate", "CREATE announcements_new">>}
    /\ hist[1].pre.announcements # {}

(***************************************************************************)
(* C30: the 'currentUser' entry written by login does not depend on the    *)
(* user's password: two runs that differ only in the password stored at    *)
(* signup and supplied at login write identical entries.                   *)
(***************************************************************************)
\* the row the login of the other run matches: the same, with password p
RowWithPassword(u, p) == [u EXCEPT !.password = p]

\* a login has succeeded: the entry it wrote is the one the run with any other
\* password writes
C30_EntryIndependentOfPassword ==
    (JustDone("login") /\ Last.status = "ok") =>
        \A p \in Passwords :
            currentUser = Some(JSONstringify(RowWithPassword(Val(user), p)))

\* the entry written by a successful login holds the password supplied
C30_Witness ==
    /\ JustDone("login") /\ Last.status = "ok"
    /\ IsSome(currentUser)
    /\ JSONparse(Val(currentUser)).password = Last.args.password
    /\ JSONparse(Val(currentUser)).email = Last.args.email

====
